---------------------------- MODULE Spec2Model ----------------------------
(***************************************************************************)
(* A model of kdb_mcp_server.py: the identifier validator, the danger      *)
(* scanner, the result formatter and the call_tool dispatcher with the     *)
(* queries it sends to the embedded q engine.                              *)
(*                                                                         *)
(* Python strings are TLA+ strings; a character is a string of length 1.   *)
(* Slicing, splitting and regular-expression matching are computed on the  *)
(* characters, as Python computes them.                                    *)
(***************************************************************************)
EXTENDS Integers, Sequences, FiniteSets, TLC

VARIABLES
    pc,         \* "start", then "returned" once the operation has acted
    request,    \* [name, arguments]: the tool (or function) invoked, and its
                \* arguments: a mapping for a tool, a string for a function
    response,   \* the text of the response (or the value the function returned)
    calls,      \* the engine calls of the invocation, in order
    tables,     \* the engine's session: table name -> number of rows
    DATA_DIR,       \* the global DATA_DIR: None, or the --data-dir given
    LOADED_TABLES   \* the global LOADED_TABLES: the names loaded at startup

vars == <<pc, request, response, calls, tables, DATA_DIR, LOADED_TABLES>>

(***************************************************************************)
(* Strings and characters.                                                 *)
(***************************************************************************)
LowerCase == "abcdefghijklmnopqrstuvwxyz"
UpperCase == "ABCDEFGHIJKLMNOPQRSTUVWXYZ"
Digits == "0123456789"

\* The backtick of q.  A TLA+ string cannot hold that character, so "@", which
\* no template and no pattern of the server uses, stands for it everywhere.
BACKTICK == "@"

\* s[i-1] of Python: the i-th character of s, as a string of length 1.
At(s, i) == SubSeq(s, i, i)

Chars(s) == {At(s, i) : i \in 1..Len(s)}

Min(S) == CHOOSE x \in S : \A y \in S : x <= y

\* The characters from lo to hi of a regular expression's class range lo-hi.
CharRange(lo, hi) ==
    LET In(seq) == {At(seq, k) : k \in {k \in 1..Len(seq) :
                        \E i, j \in 1..Len(seq) :
                            At(seq, i) = lo /\ At(seq, j) = hi /\ i <= k /\ k <= j}}
    IN In(LowerCase) \cup In(UpperCase) \cup In(Digits)

\* str.lower() of one character.
ToLower(c) ==
    IF c \in Chars(UpperCase)
    THEN At(LowerCase, CHOOSE i \in 1..26 : At(UpperCase, i) = c)
    ELSE c

\* str.upper() of one character.
ToUpper(c) ==
    IF c \in Chars(LowerCase)
    THEN At(UpperCase, CHOOSE i \in 1..26 : At(LowerCase, i) = c)
    ELSE c

\* \w of Python's re, on the characters of the model.
WordChars == Chars(LowerCase) \cup Chars(UpperCase) \cup Chars(Digits) \cup {"_"}

\* \s of Python's re, on the characters of the model.
SpaceChars == {" ", "\t", "\n", "\r", "\f"}

\* Every string of at most n pieces of the set pieces.
RECURSIVE StringsUpTo(_, _)
StringsUpTo(pieces, n) ==
    IF n = 0 THEN {""}
    ELSE LET shorter == StringsUpTo(pieces, n - 1)
         IN shorter \cup {s \o p : s \in shorter, p \in pieces}

(***************************************************************************)
(* Python's re: compile, match, search.  A compiled pattern is a record    *)
(* [items, ic]: ic is re.IGNORECASE and items is a sequence of records     *)
(* [k, cs, c, q]: k the kind, cs the class of a "set", c the character of  *)
(* a "lit", q the quantifier "1", "*" or "+".                              *)
(***************************************************************************)
Item(k, cs, c, q) == [k |-> k, cs |-> cs, c |-> c, q |-> q]

\* The members of a class body src[i..j] such as a-zA-Z0-9_ .
RECURSIVE ClassChars(_, _, _)
ClassChars(src, i, j) ==
    IF i > j THEN {}
    ELSE IF i + 2 <= j /\ At(src, i + 1) = "-"
         THEN CharRange(At(src, i), At(src, i + 2)) \cup ClassChars(src, i + 3, j)
         ELSE {At(src, i)} \cup ClassChars(src, i + 1, j)

\* The atom that starts at position i of the pattern text, and the position
\* after it.
Atom(src, i) ==
    IF At(src, i) = "\\"
    THEN [item |-> CASE At(src, i + 1) = "b" -> Item("wordb", {}, "", "1")
                     [] At(src, i + 1) = "s" -> Item("set", SpaceChars, "", "1")
                     [] OTHER -> Item("lit", {}, At(src, i + 1), "1"),
          next |-> i + 2]
    ELSE IF At(src, i) = "^" THEN [item |-> Item("bol", {}, "", "1"), next |-> i + 1]
    ELSE IF At(src, i) = "$" THEN [item |-> Item("eol", {}, "", "1"), next |-> i + 1]
    ELSE IF At(src, i) = "["
    THEN LET close == Min({j \in (i + 1)..Len(src) : At(src, j) = "]"})
         IN [item |-> Item("set", ClassChars(src, i + 1, close - 1), "", "1"),
             next |-> close + 1]
    ELSE [item |-> Item("lit", {}, At(src, i), "1"), next |-> i + 1]

RECURSIVE CompileFrom(_, _)
CompileFrom(src, i) ==
    IF i > Len(src) THEN <<>>
    ELSE LET a == Atom(src, i)
             quantified == a.next <= Len(src) /\ At(src, a.next) \in {"*", "+"}
         IN IF quantified
            THEN <<[a.item EXCEPT !.q = At(src, a.next)]>>
                     \o CompileFrom(src, a.next + 1)
            ELSE <<a.item>> \o CompileFrom(src, a.next)

\* re.compile(src, re.IGNORECASE if ic else 0)
re_compile(src, ic) == [items |-> CompileFrom(src, 1), ic |-> ic]

\* Whether position i of s holds a word character (the test \b makes).
IsWordAt(s, i) == i >= 1 /\ i <= Len(s) /\ At(s, i) \in WordChars

\* Whether item it accepts character c.
Accepts(it, ic, c) ==
    IF it.k = "set" THEN c \in it.cs
    ELSE IF ic THEN ToLower(c) = ToLower(it.c) ELSE c = it.c

\* Whether items p.. of re match s from position i on, wherever they end.
RECURSIVE MatchFrom(_, _, _, _)
MatchFrom(re, s, i, p) ==
    IF p > Len(re.items) THEN TRUE
    ELSE LET it == re.items[p]
             Run(n) == \A j \in i..(i + n - 1) : Accepts(it, re.ic, At(s, j))
         IN CASE it.k = "bol" -> i = 1 /\ MatchFrom(re, s, i, p + 1)
              [] it.k = "eol" ->
                   /\ i = Len(s) + 1 \/ (i = Len(s) /\ At(s, i) = "\n")
                   /\ MatchFrom(re, s, i, p + 1)
              [] it.k = "wordb" ->
                   /\ IsWordAt(s, i - 1) # IsWordAt(s, i)
                   /\ MatchFrom(re, s, i, p + 1)
              [] OTHER ->
                   \E n \in (IF it.q = "*" THEN 0 ELSE 1)..
                            (IF it.q = "1" THEN 1 ELSE Len(s) + 1 - i) :
                       /\ i + n - 1 <= Len(s)
                       /\ Run(n)
                       /\ MatchFrom(re, s, i + n, p + 1)

\* bool(re.match(...)): a match that starts at the first character.
re_match(re, s) == MatchFrom(re, s, 1, 1)

\* bool(pattern.search(...)): a match that starts anywhere.
re_search(re, s) == \E i \in 1..(Len(s) + 1) : MatchFrom(re, s, i, 1)

(***************************************************************************)
(* validate_table_name / validate_column_name                              *)
(***************************************************************************)
NAME_PATTERN == "^[a-zA-Z_][a-zA-Z0-9_]*$"

NAME_REGEX == re_compile(NAME_PATTERN, FALSE)

validate_table_name(name) == re_match(NAME_REGEX, name)

validate_column_name(name) == re_match(NAME_REGEX, name)

(***************************************************************************)
(* DANGEROUS_PATTERNS / is_dangerous_query                                 *)
(***************************************************************************)
DANGEROUS_PATTERNS == <<
    "\\bdrop\\b",
    "\\bdelete\\s+from\\b",
    "\\\\\\\\",
    "\\\\l\\s+/",
    "\\bexit\\b",
    "\\bvalue\\s*\"",
    "\\bsystem\\b",
    "\\bhclose\\b",
    "\\bhdel\\b",
    BACKTICK \o ":/" >>

DANGEROUS_REGEX_CaseSensitive ==
    [i \in 1..Len(DANGEROUS_PATTERNS) |-> re_compile(DANGEROUS_PATTERNS[i], FALSE)]

DANGEROUS_REGEX ==
    [i \in 1..Len(DANGEROUS_PATTERNS) |-> re_compile(DANGEROUS_PATTERNS[i], TRUE)]

ReasonPrefix == "Query contains dangerous pattern: "

\* The loop of is_dangerous_query from pattern i on.
RECURSIVE ScanFrom(_, _)
ScanFrom(query, i) ==
    IF i > Len(DANGEROUS_REGEX) THEN <<FALSE, "">>
    ELSE IF re_search(DANGEROUS_REGEX[i], query)
         THEN <<TRUE, ReasonPrefix \o DANGEROUS_PATTERNS[i]>>
         ELSE ScanFrom(query, i + 1)

\* A scan that keeps going after a match and answers with the last one.
RECURSIVE ScanLast(_, _, _)
ScanLast(query, i, found) ==
    IF i > Len(DANGEROUS_REGEX) THEN found
    ELSE ScanLast(query, i + 1,
                  IF re_search(DANGEROUS_REGEX[i], query)
                  THEN <<TRUE, ReasonPrefix \o DANGEROUS_PATTERNS[i]>>
                  ELSE found)

is_dangerous_query_LastMatch(query) == ScanLast(query, 1, <<FALSE, "">>)

is_dangerous_query(query) == ScanFrom(query, 1)

(***************************************************************************)
(* format_result                                                           *)
(***************************************************************************)
MAX_LINES == 100
MAX_WIDTH == 120

\* str.split(sep) for a separator of one character: the two halves of s are
\* split, and the last piece of the left half continues in the first piece
\* of the right half.
RECURSIVE str_split(_, _)
str_split(s, sep) ==
    IF Len(s) <= 1
    THEN IF s = sep THEN <<"", "">> ELSE <<s>>
    ELSE LET m == Len(s) \div 2
             L == str_split(SubSeq(s, 1, m), sep)
             R == str_split(SubSeq(s, m + 1, Len(s)), sep)
         IN SubSeq(L, 1, Len(L) - 1) \o <<L[Len(L)] \o R[1]>> \o Tail(R)

\* sep.join(parts)
RECURSIVE str_join(_, _)
str_join(parts, sep) ==
    IF Len(parts) = 0 THEN ""
    ELSE IF Len(parts) = 1 THEN parts[1]
    ELSE LET m == Len(parts) \div 2
         IN str_join(SubSeq(parts, 1, m), sep) \o sep
                \o str_join(SubSeq(parts, m + 1, Len(parts)), sep)

\* seq[:n] of Python, for a list and for a string.
Take(seq, n) == SubSeq(seq, 1, IF Len(seq) < n THEN Len(seq) ELSE n)

\* The body of the loop over lines[:100].
FormatLine(line, max_width) ==
    IF Len(line) > max_width THEN Take(line, max_width) \o "..." ELSE line

\* Variants of format_result: a summary line from 100 lines on; a cut line
\* without its ellipsis.
format_result_SummaryAt100(result_str, max_width) ==
    LET lines == str_split(result_str, "\n")
        kept == Take(lines, MAX_LINES)
        formatted_lines == [k \in 1..Len(kept) |-> FormatLine(kept[k], max_width)]
    IN str_join(IF Len(lines) >= MAX_LINES
                THEN Append(formatted_lines,
                            "... (" \o ToString(Len(lines) - MAX_LINES) \o " more rows)")
                ELSE formatted_lines, "\n")

format_result_NoEllipsis(result_str, max_width) ==
    LET lines == str_split(result_str, "\n")
        kept == Take(lines, MAX_LINES)
        formatted_lines == [k \in 1..Len(kept) |-> Take(kept[k], max_width)]
    IN str_join(IF Len(lines) > MAX_LINES
                THEN Append(formatted_lines,
                            "... (" \o ToString(Len(lines) - MAX_LINES) \o " more rows)")
                ELSE formatted_lines, "\n")

\* format_result(result, max_width), on result_str = str(result).
format_result(result_str, max_width) ==
    LET lines == str_split(result_str, "\n")
        kept == Take(lines, MAX_LINES)
        formatted_lines == [k \in 1..Len(kept) |-> FormatLine(kept[k], max_width)]
    IN str_join(IF Len(lines) > MAX_LINES
                THEN Append(formatted_lines,
                            "... (" \o ToString(Len(lines) - MAX_LINES) \o " more rows)")
                ELSE formatted_lines, "\n")

\* n rows of one digit each, every row ended by a newline.
Rows(n) == str_join([i \in 1..n |-> At(Digits, (i % 10) + 1)], "\n") \o "\n"

\* n times the character c.
Repeat(c, n) == str_join([i \in 1..n |-> c], "")

(***************************************************************************)
(* Python values of the arguments mapping: NoneVal, a str or an int.  A key   *)
(* the caller left out is not in the mapping's domain; ABSENT marks such a *)
(* key while the mappings are enumerated.                                  *)
(***************************************************************************)
NoneVal == [t |-> "none", s |-> "", n |-> 0]
StrVal(s) == [t |-> "str", s |-> s, n |-> 0]
IntVal(n) == [t |-> "int", s |-> "", n |-> n]
ABSENT == [t |-> "absent", s |-> "", n |-> 0]

\* str(v), as an f-string substitutes it.
py_str(v) == CASE v.t = "str" -> v.s
               [] v.t = "int" -> ToString(v.n)
               [] OTHER -> "None"

\* bool(v)
Truthy(v) == CASE v.t = "str" -> v.s # ""
               [] v.t = "int" -> v.n # 0
               [] OTHER -> FALSE

\* arguments.get(key, default)
Get(arguments, key, default) ==
    IF key \in DOMAIN arguments THEN arguments[key] ELSE default

\* f"{count:,}": the decimal digits in groups of three.
RECURSIVE Thousands(_)
Thousands(n) ==
    IF n < 1000 THEN ToString(n)
    ELSE LET r == n % 1000
         IN Thousands(n \div 1000) \o ","
                \o (IF r < 10 THEN "00" ELSE IF r < 100 THEN "0" ELSE "") \o ToString(r)

\* str.upper()
RECURSIVE str_upper(_)
str_upper(s) == IF s = "" THEN "" ELSE ToUpper(At(s, 1)) \o str_upper(Tail(s))

\* str.strip()
RECURSIVE str_strip(_)
str_strip(s) ==
    IF s = "" THEN ""
    ELSE IF At(s, 1) \in SpaceChars THEN str_strip(Tail(s))
    ELSE IF At(s, Len(s)) \in SpaceChars THEN str_strip(SubSeq(s, 1, Len(s) - 1))
    ELSE s

\* The messages of the exceptions Python raises on a value of the wrong type.
TypeErrorMatch == "expected string or bytes-like object"
TypeName(v) == CASE v.t = "str" -> "str"
                 [] v.t = "int" -> "int"
                 [] OTHER -> "NoneType"
TypeErrorMin(v) ==
    "'<' not supported between instances of 'int' and '" \o TypeName(v) \o "'"
AttributeError(v, attribute) ==
    "'" \o TypeName(v) \o "' object has no attribute '" \o attribute \o "'"

(***************************************************************************)
(* The queries sent to the engine.  A query is the sequence of the parts   *)
(* its f-string is made of: "template" text of the server, and the values  *)
(* substituted into it, each with the kind of its slot and the argument    *)
(* (slot) it comes from.  The text the engine receives is QueryText.       *)
(***************************************************************************)
Tpl(text) == [kind |-> "template", slot |-> "", v |-> StrVal(text)]
Ident(slot, v) == [kind |-> "ident", slot |-> slot, v |-> v]
Literal(slot, v) == [kind |-> "literal", slot |-> slot, v |-> v]
EngineName(t) == [kind |-> "engine_name", slot |-> "tables[]", v |-> StrVal(t)]
PathPart(path) == [kind |-> "path", slot |-> "table_path", v |-> StrVal(path)]

\* The query as one string.
QueryText(query) == str_join([i \in 1..Len(query) |-> py_str(query[i].v)], "")

\* kx.q(query) and kx.q(query, result): operand tells the second form.
Call(query) == [query |-> query, operand |-> FALSE, raised |-> FALSE]
CallOn_NoOperand(query) == [query |-> query, operand |-> FALSE, raised |-> FALSE]
CallOn(query) == [query |-> query, operand |-> TRUE, raised |-> FALSE]

\* The call that raised a QError.
Raised(call) == [call EXCEPT !.raised = TRUE]

\* kx.q('tables[]')
TablesCall == Call(<<Tpl("tables[]")>>)

(***************************************************************************)
(* The engine.  Its session is the mapping tables: name -> rows.  What a   *)
(* query returns is the engine's business: each invocation draws an        *)
(* oracle eng = [raise_at, result, n]: raise_at is the data query (1, 2)   *)
(* that raises a QError, 0 for none; result is the value a data query      *)
(* returns, as [str, len] (its text, its len(), -1 when it has none); n is *)
(* the count a counting select returns.                                    *)
(***************************************************************************)
\* The names of the tables of a large installation: t1, t2, ...
ManyTables == [i \in 1..(MAX_LINES + 3) |-> "t" \o ToString(i)]

TableUniverse == <<"stocks", "trades">> \o ManyTables

\* tables[] of q: the names of the session's tables, in order.
RECURSIVE TableList(_, _)
TableList(T, i) ==
    IF i > Len(TableUniverse) THEN <<>>
    ELSE (IF TableUniverse[i] \in DOMAIN T THEN <<TableUniverse[i]>> ELSE <<>>)
             \o TableList(T, i + 1)

\* The session T with table t of rows rows.
WithTable(T, t, rows) == [x \in DOMAIN T \cup {t} |-> IF x = t THEN rows ELSE T[x]]

\* The statements of q that write the session, as far as the model knows q:
\* an assignment of three rows of stocks to trades, and the deletion of
\* stocks from the root namespace.  Every other statement reads.
AssignStatement == "trades:3#stocks"
DeleteStatement == "delete stocks from " \o BACKTICK \o "."

StatementEffect(stmt, T) ==
    IF str_strip(stmt) = AssignStatement /\ "stocks" \in DOMAIN T
    THEN WithTable(T, "trades", 3)
    ELSE IF str_strip(stmt) = DeleteStatement THEN [x \in DOMAIN T \ {"stocks"} |-> T[x]]
    ELSE T

\* The session after the engine ran the statements stmts[i..] of a query.
RECURSIVE RunStatements(_, _, _)
RunStatements(stmts, i, T) ==
    IF i > Len(stmts) THEN T
    ELSE RunStatements(stmts, i + 1, StatementEffect(stmts[i], T))

\* The session after the engine ran query text (statements part at ";").
q_effect(text, T) == RunStatements(str_split(text, ";"), 1, T)

QErrorMessage == "type"

EngineResults == {
    [str |-> "42", len |-> -1],
    [str |-> "symbol close\n------------\nAAPL   500", len |-> 1],
    [str |-> Rows(150), len |-> 150],
    [str |-> "symbol| " \o Repeat("x", 121), len |-> 20000] }

Oracles == [raise_at : 0..2, result : EngineResults, n : {0, 1234}]

\* table_exists, were it to consult the names loaded at startup.
table_exists_Registry(table_name, T) ==
    table_name.t = "str" /\ \E i \in 1..Len(LOADED_TABLES) : LOADED_TABLES[i] = table_name.s

\* table_exists(table_name): table_name in kx.q('tables[]').py()
table_exists(table_name, T) == table_name.t = "str" /\ table_name.s \in DOMAIN T

(***************************************************************************)
(* call_tool: what one invocation answers, the engine calls it makes and   *)
(* the session it leaves, as a record [text, calls, tables].               *)
(***************************************************************************)
\* The response before any invocation, and of one that returns no text block.
NoRet == "none"

\* return [TextContent(type="text", text=text)]
Respond(text, made, T) == [text |-> text, calls |-> made, tables |-> T]

\* except kx.exceptions.QError as e
OnQError(msg, made, T) ==
    Respond("KDB+ Error: " \o msg, [made EXCEPT ![Len(made)] = Raised(@)], T)

\* except Exception as e
OnException(msg, made, T) == Respond("Error: " \o msg, made, T)

NotFound(table_name, made, T) ==
    Respond("Error: Table '" \o py_str(table_name) \o "' not found", made, T)

\* result = kx.q(query), then the return of text (rendered from the result):
\* the one data query of a templated tool, after the calls made so far.
RunTemplate(made, query, T, eng, text) ==
    LET now == Append(made, Call(query))
    IN IF eng.raise_at = 1
       THEN OnQError(QErrorMessage, now, T)
       ELSE Respond(text, now, q_effect(QueryText(query), T))

\* min(v, cap) of Python for an int cap: a TypeError unless v is a number.
MinRaises(v) == v.t # "int"
MinWith_NoClamp(v, cap) == v
MinWith(v, cap) == IF v.n < cap THEN v ELSE IntVal(cap)

\* ---- Category A: basic table information ----
list_tables(arguments, T, eng) ==
    LET tbls == TableList(T, 1)
    IN IF Len(tbls) = 0
       THEN Respond("No tables found in the current session.", <<TablesCall>>, T)
       ELSE Respond("Available tables (" \o ToString(Len(tbls)) \o "):\n"
                        \o str_join([i \in 1..Len(tbls) |-> "  - " \o tbls[i]], "\n"),
                    <<TablesCall>>, T)

\* table_schema without the existence lookup.
table_schema_NoLookup(arguments, T, eng) ==
    LET table_name == Get(arguments, "table_name", NoneVal)
    IN IF table_name.t # "str" THEN OnException(TypeErrorMatch, <<>>, T)
       ELSE IF ~validate_table_name(table_name.s)
       THEN Respond("Error: Invalid table name format", <<>>, T)
       ELSE RunTemplate(<<>>,
                <<Tpl("meta "), Ident("table_name", table_name)>>, T, eng,
                "Schema for '" \o table_name.s \o "':\n"
                    \o format_result(eng.result.str, MAX_WIDTH))

table_schema(arguments, T, eng) ==
    LET table_name == Get(arguments, "table_name", NoneVal)
    IN IF table_name.t # "str" THEN OnException(TypeErrorMatch, <<>>, T)
       ELSE IF ~validate_table_name(table_name.s)
       THEN Respond("Error: Invalid table name format", <<>>, T)
       ELSE IF ~table_exists(table_name, T) THEN NotFound(table_name, <<TablesCall>>, T)
       ELSE RunTemplate(<<TablesCall>>,
                <<Tpl("meta "), Ident("table_name", table_name)>>, T, eng,
                "Schema for '" \o table_name.s \o "':\n"
                                    \o format_result(eng.result.str, MAX_WIDTH))

\* table_count rendering the count without separators.
table_count_PlainCount(arguments, T, eng) ==
    LET table_name == Get(arguments, "table_name", NoneVal)
    IN IF table_name.t # "str" THEN OnException(TypeErrorMatch, <<>>, T)
       ELSE IF ~validate_table_name(table_name.s)
       THEN Respond("Error: Invalid table name format", <<>>, T)
       ELSE IF ~table_exists(table_name, T) THEN NotFound(table_name, <<TablesCall>>, T)
       ELSE RunTemplate(<<TablesCall>>,
                <<Tpl("count "), Ident("table_name", table_name)>>, T, eng,
                "Table '" \o table_name.s \o "' has "
                    \o ToString(T[table_name.s]) \o " rows")

table_count(arguments, T, eng) ==
    LET table_name == Get(arguments, "table_name", NoneVal)
    IN IF table_name.t # "str" THEN OnException(TypeErrorMatch, <<>>, T)
       ELSE IF ~validate_table_name(table_name.s)
       THEN Respond("Error: Invalid table name format", <<>>, T)
       ELSE IF ~table_exists(table_name, T) THEN NotFound(table_name, <<TablesCall>>, T)
       ELSE RunTemplate(<<TablesCall>>,
                <<Tpl("count "), Ident("table_name", table_name)>>, T, eng,
                "Table '" \o table_name.s \o "' has "
                                    \o Thousands(T[table_name.s]) \o " rows")

table_sample(arguments, T, eng) ==
    LET table_name == Get(arguments, "table_name", NoneVal)
        requested == Get(arguments, "num_rows", IntVal(10))
        num_rows == MinWith(requested, 100)
    IN IF MinRaises(requested) THEN OnException(TypeErrorMin(requested), <<>>, T)
       ELSE IF table_name.t # "str" THEN OnException(TypeErrorMatch, <<>>, T)
       ELSE IF ~validate_table_name(table_name.s)
       THEN Respond("Error: Invalid table name format", <<>>, T)
       ELSE IF ~table_exists(table_name, T) THEN NotFound(table_name, <<TablesCall>>, T)
       ELSE RunTemplate(<<TablesCall>>,
                <<Literal("num_rows", num_rows), Tpl("#"), Ident("table_name", table_name)>>,
                T, eng,
                "Sample (" \o py_str(num_rows) \o " rows) from '"
                                    \o table_name.s \o "':\n"
                                    \o format_result(eng.result.str, MAX_WIDTH))

column_names(arguments, T, eng) ==
    LET table_name == Get(arguments, "table_name", NoneVal)
    IN IF table_name.t # "str" THEN OnException(TypeErrorMatch, <<>>, T)
       ELSE IF ~validate_table_name(table_name.s)
       THEN Respond("Error: Invalid table name format", <<>>, T)
       ELSE IF ~table_exists(table_name, T) THEN NotFound(table_name, <<TablesCall>>, T)
       ELSE RunTemplate(<<TablesCall>>,
                <<Tpl("cols "), Ident("table_name", table_name)>>, T, eng,
                "Columns in '" \o table_name.s \o "':\n"
                                    \o format_result(eng.result.str, MAX_WIDTH))

\* ---- Category B: data discovery ----
\* "not validate_table_name(t) or not validate_column_name(c)": "raise" when
\* re.match is handed a value that is no str, else whether the test is true.
InvalidNames(table_name, column) ==
    IF table_name.t # "str" THEN "raise"
    ELSE IF ~validate_table_name(table_name.s) THEN "invalid"
    ELSE IF column.t # "str" THEN "raise"
    ELSE IF ~validate_column_name(column.s) THEN "invalid"
    ELSE "valid"

distinct_values(arguments, T, eng) ==
    LET table_name == Get(arguments, "table_name", NoneVal)
        column_name == Get(arguments, "column_name", NoneVal)
        requested == Get(arguments, "limit", IntVal(50))
        limit == MinWith(requested, 500)
        names == InvalidNames(table_name, column_name)
    IN IF MinRaises(requested) THEN OnException(TypeErrorMin(requested), <<>>, T)
       ELSE IF names = "raise" THEN OnException(TypeErrorMatch, <<>>, T)
       ELSE IF names = "invalid"
       THEN Respond("Error: Invalid table or column name", <<>>, T)
       ELSE IF ~table_exists(table_name, T) THEN NotFound(table_name, <<TablesCall>>, T)
       ELSE RunTemplate(<<TablesCall>>,
                <<Literal("limit", limit), Tpl("#distinct "),
                  Ident("table_name", table_name), Tpl(BACKTICK),
                  Ident("column_name", column_name)>>, T, eng,
                "Distinct values in '" \o table_name.s \o "."
                                    \o column_name.s \o "':\n"
                                    \o format_result(eng.result.str, MAX_WIDTH))

count_by_group(arguments, T, eng) ==
    LET table_name == Get(arguments, "table_name", NoneVal)
        group_column == Get(arguments, "group_column", NoneVal)
        names == InvalidNames(table_name, group_column)
    IN IF names = "raise" THEN OnException(TypeErrorMatch, <<>>, T)
       ELSE IF names = "invalid"
       THEN Respond("Error: Invalid table or column name", <<>>, T)
       ELSE IF ~table_exists(table_name, T) THEN NotFound(table_name, <<TablesCall>>, T)
       ELSE RunTemplate(<<TablesCall>>,
                <<Tpl("select cnt: count i by "), Ident("group_column", group_column),
                  Tpl(" from "), Ident("table_name", table_name)>>, T, eng,
                "Count by '" \o group_column.s \o "':\n"
                                    \o format_result(eng.result.str, MAX_WIDTH))

date_range(arguments, T, eng) ==
    LET table_name == Get(arguments, "table_name", NoneVal)
        date_column == Get(arguments, "date_column", StrVal("timestamp"))
        names == InvalidNames(table_name, date_column)
    IN IF names = "raise" THEN OnException(TypeErrorMatch, <<>>, T)
       ELSE IF names = "invalid"
       THEN Respond("Error: Invalid table or column name", <<>>, T)
       ELSE IF ~table_exists(table_name, T) THEN NotFound(table_name, <<TablesCall>>, T)
       ELSE RunTemplate(<<TablesCall>>,
                <<Tpl("select min_date: min "), Ident("date_column", date_column),
                  Tpl(", max_date: max "), Ident("date_column", date_column),
                  Tpl(" from "), Ident("table_name", table_name)>>, T, eng,
                "Date range in '" \o table_name.s \o "':\n"
                                    \o format_result(eng.result.str, MAX_WIDTH))

data_points_per_day(arguments, T, eng) ==
    LET table_name == Get(arguments, "table_name", NoneVal)
        date_column == Get(arguments, "date_column", StrVal("timestamp"))
        limit == Get(arguments, "limit", IntVal(10))
    IN IF table_name.t # "str" THEN OnException(TypeErrorMatch, <<>>, T)
       ELSE IF ~validate_table_name(table_name.s)
       THEN Respond("Error: Invalid table name", <<>>, T)
       ELSE IF ~table_exists(table_name, T) THEN NotFound(table_name, <<TablesCall>>, T)
       ELSE RunTemplate(<<TablesCall>>,
                <<Literal("limit", limit), Tpl("#select cnt: count i by dt: "),
                  Tpl(BACKTICK), Tpl("date$"), Ident("date_column", date_column),
                  Tpl(" from "), Ident("table_name", table_name)>>, T, eng,
                "Data points per day:\n"
                                    \o format_result(eng.result.str, MAX_WIDTH))

column_stats(arguments, T, eng) ==
    LET table_name == Get(arguments, "table_name", NoneVal)
        column_name == Get(arguments, "column_name", NoneVal)
        names == InvalidNames(table_name, column_name)
    IN IF names = "raise" THEN OnException(TypeErrorMatch, <<>>, T)
       ELSE IF names = "invalid"
       THEN Respond("Error: Invalid table or column name", <<>>, T)
       ELSE IF ~table_exists(table_name, T) THEN NotFound(table_name, <<TablesCall>>, T)
       ELSE RunTemplate(<<TablesCall>>,
                <<Tpl("select cnt: count "), Ident("column_name", column_name),
                  Tpl(", nulls: sum null "), Ident("column_name", column_name),
                  Tpl(", distinct_cnt: count distinct "), Ident("column_name", column_name),
                  Tpl(" from "), Ident("table_name", table_name)>>, T, eng,
                "Stats for '" \o table_name.s \o "." \o column_name.s
                                    \o "':\n" \o format_result(eng.result.str, MAX_WIDTH))

\* ---- Category C: price analysis ----
average_price_by_symbol(arguments, T, eng) ==
    LET table_name == Get(arguments, "table_name", StrVal("stocks"))
        price_column == Get(arguments, "price_column", StrVal("close"))
    IN IF ~table_exists(table_name, T) THEN NotFound(table_name, <<TablesCall>>, T)
       ELSE RunTemplate(<<TablesCall>>,
                <<Tpl("select avg_"), Ident("price_column", price_column),
                  Tpl(": avg "), Ident("price_column", price_column),
                  Tpl(" by symbol from "), Ident("table_name", table_name)>>, T, eng,
                "Average " \o py_str(price_column) \o " by symbol:\n"
                                    \o format_result(eng.result.str, MAX_WIDTH))

price_range_by_symbol(arguments, T, eng) ==
    LET table_name == Get(arguments, "table_name", StrVal("stocks"))
        price_column == Get(arguments, "price_column", StrVal("close"))
    IN IF ~table_exists(table_name, T) THEN NotFound(table_name, <<TablesCall>>, T)
       ELSE RunTemplate(<<TablesCall>>,
                <<Tpl("select min_"), Ident("price_column", price_column),
                  Tpl(": min "), Ident("price_column", price_column),
                  Tpl(", max_"), Ident("price_column", price_column),
                  Tpl(": max "), Ident("price_column", price_column),
                  Tpl(", price_range: (max "), Ident("price_column", price_column),
                  Tpl(") - min "), Ident("price_column", price_column),
                  Tpl(" by symbol from "), Ident("table_name", table_name)>>, T, eng,
                "Price range by symbol:\n"
                                    \o format_result(eng.result.str, MAX_WIDTH))

highest_prices(arguments, T, eng) ==
    LET table_name == Get(arguments, "table_name", StrVal("stocks"))
        price_column == Get(arguments, "price_column", StrVal("close"))
    IN IF ~table_exists(table_name, T) THEN NotFound(table_name, <<TablesCall>>, T)
       ELSE RunTemplate(<<TablesCall>>,
                <<Tpl("select max_"), Ident("price_column", price_column),
                  Tpl(": max "), Ident("price_column", price_column),
                  Tpl(" by symbol from "), Ident("table_name", table_name)>>, T, eng,
                "Highest " \o py_str(price_column) \o " by symbol:\n"
                                    \o format_result(eng.result.str, MAX_WIDTH))

price_volatility(arguments, T, eng) ==
    LET table_name == Get(arguments, "table_name", StrVal("stocks"))
        price_column == Get(arguments, "price_column", StrVal("close"))
    IN IF ~table_exists(table_name, T) THEN NotFound(table_name, <<TablesCall>>, T)
       ELSE RunTemplate(<<TablesCall>>,
                <<Tpl("select volatility: dev "), Ident("price_column", price_column),
                  Tpl(" by symbol from "), Ident("table_name", table_name)>>, T, eng,
                "Price volatility (std dev) by symbol:\n"
                                    \o format_result(eng.result.str, MAX_WIDTH))

price_statistics(arguments, T, eng) ==
    LET table_name == Get(arguments, "table_name", StrVal("stocks"))
        price_column == Get(arguments, "price_column", StrVal("close"))
    IN IF ~table_exists(table_name, T) THEN NotFound(table_name, <<TablesCall>>, T)
       ELSE RunTemplate(<<TablesCall>>,
                <<Tpl("select avg_"), Ident("price_column", price_column),
                  Tpl(": avg "), Ident("price_column", price_column),
                  Tpl(", median_"), Ident("price_column", price_column),
                  Tpl(": med "), Ident("price_column", price_column),
                  Tpl(", std_"), Ident("price_column", price_column),
                  Tpl(": dev "), Ident("price_column", price_column),
                  Tpl(" by symbol from "), Ident("table_name", table_name)>>, T, eng,
                "Price statistics by symbol:\n"
                                    \o format_result(eng.result.str, MAX_WIDTH))

\* ---- Category D: volume analysis ----
average_volume_by_symbol(arguments, T, eng) ==
    LET table_name == Get(arguments, "table_name", StrVal("stocks"))
    IN IF ~table_exists(table_name, T) THEN NotFound(table_name, <<TablesCall>>, T)
       ELSE RunTemplate(<<TablesCall>>,
                <<Tpl("select avg_volume: avg volume by symbol from "),
                  Ident("table_name", table_name)>>, T, eng,
                "Average volume by symbol:\n"
                                    \o format_result(eng.result.str, MAX_WIDTH))

total_volume_by_symbol(arguments, T, eng) ==
    LET table_name == Get(arguments, "table_name", StrVal("stocks"))
    IN IF ~table_exists(table_name, T) THEN NotFound(table_name, <<TablesCall>>, T)
       ELSE RunTemplate(<<TablesCall>>,
                <<Tpl("select total_volume: sum volume by symbol from "),
                  Ident("table_name", table_name)>>, T, eng,
                "Total volume by symbol:\n"
                                    \o format_result(eng.result.str, MAX_WIDTH))

top_volume_records(arguments, T, eng) ==
    LET table_name == Get(arguments, "table_name", StrVal("stocks"))
        limit == Get(arguments, "limit", IntVal(10))
    IN IF ~table_exists(table_name, T) THEN NotFound(table_name, <<TablesCall>>, T)
       ELSE RunTemplate(<<TablesCall>>,
                <<Literal("limit", limit), Tpl(" sublist "), Tpl(BACKTICK),
                  Tpl("volume xdesc select symbol, timestamp, volume from "),
                  Ident("table_name", table_name)>>, T, eng,
                "Top " \o py_str(limit) \o " highest volume records:\n"
                                    \o format_result(eng.result.str, MAX_WIDTH))

\* ---- Category E: filtering and selection ----
filter_by_symbol(arguments, T, eng) ==
    LET table_name == Get(arguments, "table_name", StrVal("stocks"))
        given == Get(arguments, "symbol", StrVal(""))
        symbol == StrVal(str_upper(given.s))
        requested == Get(arguments, "limit", IntVal(100))
        limit == MinWith(requested, 1000)
        where == <<Ident("table_name", table_name), Tpl(" where symbol like \""),
                   Literal("symbol", symbol), Tpl("\"")>>
        first == Call(<<Literal("limit", limit), Tpl("#select from ")>> \o where)
        second == Call(<<Tpl("count select from ")>> \o where)
        T1 == q_effect(QueryText(first.query), T)
        T2 == q_effect(QueryText(second.query), T1)
    IN IF given.t # "str" THEN OnException(AttributeError(given, "upper"), <<>>, T)
       ELSE IF MinRaises(requested) THEN OnException(TypeErrorMin(requested), <<>>, T)
       ELSE IF symbol.s = "" THEN Respond("Error: symbol is required", <<>>, T)
       ELSE IF ~table_exists(table_name, T) THEN NotFound(table_name, <<TablesCall>>, T)
       ELSE IF eng.raise_at = 1 THEN OnQError(QErrorMessage, <<TablesCall, first>>, T)
       ELSE IF eng.raise_at = 2
       THEN OnQError(QErrorMessage, <<TablesCall, first, second>>, T1)
       ELSE Respond("Data for " \o symbol.s \o " (" \o Thousands(eng.n)
                        \o " total rows, showing " \o py_str(limit) \o "):\n"
                        \o format_result(eng.result.str, MAX_WIDTH),
                    <<TablesCall, first, second>>, T2)

\* op_map.get(operator, ">")
\* op_map with "gte" left out.
op_map_NoGte(operator) ==
    CASE operator = StrVal("gt") -> ">"
      [] operator = StrVal("lt") -> "<"
      [] operator = StrVal("lte") -> "<="
      [] OTHER -> ">"

op_map(operator) ==
    CASE operator = StrVal("gt") -> ">"
      [] operator = StrVal("lt") -> "<"
      [] operator = StrVal("gte") -> ">="
      [] operator = StrVal("lte") -> "<="
      [] OTHER -> ">"

filter_by_price_threshold(arguments, T, eng) ==
    LET table_name == Get(arguments, "table_name", StrVal("stocks"))
        price_column == Get(arguments, "price_column", StrVal("close"))
        threshold == Get(arguments, "threshold", NoneVal)
        operator == Get(arguments, "operator", StrVal("gt"))
        op == StrVal(op_map(operator))
    IN IF threshold = NoneVal THEN Respond("Error: threshold is required", <<>>, T)
       ELSE IF ~table_exists(table_name, T) THEN NotFound(table_name, <<TablesCall>>, T)
       ELSE RunTemplate(<<TablesCall>>,
                <<Tpl("select cnt: count i, symbols: distinct symbol from "),
                  Ident("table_name", table_name), Tpl(" where "),
                  Ident("price_column", price_column), Tpl(" "),
                  Literal("operator", op), Tpl(" "),
                  Literal("threshold", threshold)>>, T, eng,
                "Records where " \o py_str(price_column) \o " " \o op.s
                                    \o " " \o py_str(threshold) \o ":\n"
                                    \o format_result(eng.result.str, MAX_WIDTH))

\* filter_by_date with the two dates looked at before the year.
filter_by_date_RangeFirst(arguments, T, eng) ==
    LET table_name == Get(arguments, "table_name", StrVal("stocks"))
        year == Get(arguments, "year", NoneVal)
        start_date == Get(arguments, "start_date", NoneVal)
        end_date == Get(arguments, "end_date", NoneVal)
    IN IF ~table_exists(table_name, T) THEN NotFound(table_name, <<TablesCall>>, T)
       ELSE IF Truthy(start_date) /\ Truthy(end_date)
       THEN RunTemplate(<<TablesCall>>,
                <<Tpl("select cnt: count i by symbol from "),
                  Ident("table_name", table_name), Tpl(" where timestamp >= "),
                  Literal("start_date", start_date), Tpl(", timestamp <= "),
                  Literal("end_date", end_date)>>, T, eng,
                "Data from " \o py_str(start_date) \o " to "
                                    \o py_str(end_date) \o ":\n"
                                    \o format_result(eng.result.str, MAX_WIDTH))
       ELSE IF Truthy(year)
       THEN RunTemplate(<<TablesCall>>,
                <<Tpl("select cnt: count i by symbol from "),
                  Ident("table_name", table_name), Tpl(" where timestamp >= "),
                  Literal("year", year), Tpl(".01.01")>>, T, eng,
                "Data from " \o py_str(year) \o " onward:\n"
                                    \o format_result(eng.result.str, MAX_WIDTH))
       ELSE Respond("Error: Provide either 'year' or both 'start_date' and 'end_date'",
                    <<TablesCall>>, T)

filter_by_date(arguments, T, eng) ==
    LET table_name == Get(arguments, "table_name", StrVal("stocks"))
        year == Get(arguments, "year", NoneVal)
        start_date == Get(arguments, "start_date", NoneVal)
        end_date == Get(arguments, "end_date", NoneVal)
    IN IF ~table_exists(table_name, T) THEN NotFound(table_name, <<TablesCall>>, T)
       ELSE IF Truthy(year)
       THEN RunTemplate(<<TablesCall>>,
                <<Tpl("select cnt: count i by symbol from "),
                  Ident("table_name", table_name), Tpl(" where timestamp >= "),
                  Literal("year", year), Tpl(".01.01")>>, T, eng,
                "Data from " \o py_str(year) \o " onward:\n"
                                    \o format_result(eng.result.str, MAX_WIDTH))
       ELSE IF Truthy(start_date) /\ Truthy(end_date)
       THEN RunTemplate(<<TablesCall>>,
                <<Tpl("select cnt: count i by symbol from "),
                  Ident("table_name", table_name), Tpl(" where timestamp >= "),
                  Literal("start_date", start_date), Tpl(", timestamp <= "),
                  Literal("end_date", end_date)>>, T, eng,
                "Data from " \o py_str(start_date) \o " to "
                                    \o py_str(end_date) \o ":\n"
                                    \o format_result(eng.result.str, MAX_WIDTH))
       ELSE Respond("Error: Provide either 'year' or both 'start_date' and 'end_date'",
                    <<TablesCall>>, T)

symbol_summary(arguments, T, eng) ==
    LET table_name == Get(arguments, "table_name", StrVal("stocks"))
        given == Get(arguments, "symbol", StrVal(""))
        symbol == StrVal(str_upper(given.s))
    IN IF given.t # "str" THEN OnException(AttributeError(given, "upper"), <<>>, T)
       ELSE IF symbol.s = "" THEN Respond("Error: symbol is required", <<>>, T)
       ELSE IF ~table_exists(table_name, T) THEN NotFound(table_name, <<TablesCall>>, T)
       ELSE RunTemplate(<<TablesCall>>,
                <<Tpl("select cnt: count i, avg_close: avg close, avg_volume: avg volume from "),
                  Ident("table_name", table_name), Tpl(" where symbol like \""),
                  Literal("symbol", symbol), Tpl("\"")>>, T, eng,
                "Summary for " \o symbol.s \o ":\n"
                                    \o format_result(eng.result.str, MAX_WIDTH))

\* ---- Category F: advanced analytics ----
daily_ohlc(arguments, T, eng) ==
    LET table_name == Get(arguments, "table_name", StrVal("stocks"))
        given == Get(arguments, "symbol", StrVal(""))
        symbol == StrVal(str_upper(given.s))
        limit == Get(arguments, "limit", IntVal(10))
    IN IF given.t # "str" THEN OnException(AttributeError(given, "upper"), <<>>, T)
       ELSE IF symbol.s = "" THEN Respond("Error: symbol is required", <<>>, T)
       ELSE IF ~table_exists(table_name, T) THEN NotFound(table_name, <<TablesCall>>, T)
       ELSE RunTemplate(<<TablesCall>>,
                <<Literal("limit", limit), Tpl(" sublist "), Tpl(BACKTICK),
                  Tpl("dt xdesc select open: first open, high: max high, low: min low, close: last close, volume: sum volume by dt: "),
                  Tpl(BACKTICK), Tpl("date$timestamp from "),
                  Ident("table_name", table_name), Tpl(" where symbol like \""),
                  Literal("symbol", symbol), Tpl("\"")>>, T, eng,
                "Daily OHLC for " \o symbol.s \o " (last " \o py_str(limit)
                                    \o " days):\n" \o format_result(eng.result.str, MAX_WIDTH))

price_change_analysis(arguments, T, eng) ==
    LET table_name == Get(arguments, "table_name", StrVal("stocks"))
    IN IF ~table_exists(table_name, T) THEN NotFound(table_name, <<TablesCall>>, T)
       ELSE RunTemplate(<<TablesCall>>,
                <<Tpl("select avg_daily_range: avg (high - low), avg_spread_pct: avg 100 * (high - low) % low by symbol from "),
                  Ident("table_name", table_name)>>, T, eng,
                "Price change analysis by symbol:\n"
                                    \o format_result(eng.result.str, MAX_WIDTH))

\* The caller's own query text, sent to the engine as it is.
FreeText(query) == [kind |-> "free", slot |-> "query", v |-> StrVal(query)]

\* n#result of q on a result of more than n rows: its first n rows.
TakeRows(result, n) ==
    [str |-> str_join(Take(str_split(result.str, "\n"), n), "\n"), len |-> n]

\* execute_query with the engine called before the scan.
execute_query_ScanAfterCall(arguments, T, eng) ==
    LET raw == Get(arguments, "query", StrVal(""))
        query == str_strip(raw.s)
        scan == is_dangerous_query(query)
        first == Call(<<FreeText(query)>>)
    IN IF raw.t # "str" THEN OnException(AttributeError(raw, "strip"), <<>>, T)
       ELSE IF query = "" THEN Respond("Error: query is required", <<>>, T)
       ELSE IF scan[1]
       THEN Respond("Error: Query blocked for safety. " \o scan[2], <<first>>,
                    q_effect(query, T))
       ELSE Respond("Query result:\n" \o format_result(eng.result.str, MAX_WIDTH),
                    <<first>>, q_effect(query, T))

execute_query(arguments, T, eng) ==
    LET raw == Get(arguments, "query", StrVal(""))
        query == str_strip(raw.s)
        requested == Get(arguments, "max_rows", IntVal(100))
        max_rows == MinWith(requested, 10000)
        scan == is_dangerous_query(query)
        first == Call(<<FreeText(query)>>)
        second == CallOn(<<Literal("max_rows", max_rows), Tpl("#")>>)
        T1 == q_effect(query, T)
    IN IF raw.t # "str" THEN OnException(AttributeError(raw, "strip"), <<>>, T)
       ELSE IF MinRaises(requested) THEN OnException(TypeErrorMin(requested), <<>>, T)
       ELSE IF query = "" THEN Respond("Error: query is required", <<>>, T)
       ELSE IF scan[1]
       THEN Respond("Error: Query blocked for safety. " \o scan[2], <<>>, T)
       ELSE IF eng.raise_at = 1 THEN OnQError(QErrorMessage, <<first>>, T)
       ELSE IF eng.result.len # -1 /\ eng.result.len > max_rows.n
       THEN IF eng.raise_at = 2
            THEN \* "except: pass": the result as first fetched
                 Respond("Query result:\n" \o format_result(eng.result.str, MAX_WIDTH),
                         <<first, Raised(second)>>, T1)
            ELSE Respond("Query result (limited to " \o py_str(max_rows) \o " rows):\n"
                             \o format_result(TakeRows(eng.result, max_rows.n).str,
                                              MAX_WIDTH),
                         <<first, second>>, T1)
       ELSE Respond("Query result:\n" \o format_result(eng.result.str, MAX_WIDTH),
                    <<first>>, T1)

\* ---- Category G: server and table management ----
\* The directories of the file system: whether the directory holds a .d file
\* (a splayed table), and the rows of the table it holds.
Directories == {
    [path |-> "/data", d |-> FALSE, rows |-> 0],
    [path |-> "/data/stocks", d |-> TRUE, rows |-> 1234],
    [path |-> "/data/2bad", d |-> TRUE, rows |-> 5],
    [path |-> "/data/plain", d |-> FALSE, rows |-> 0],
    [path |-> "/archive", d |-> FALSE, rows |-> 0],
    [path |-> "/archive/trades", d |-> TRUE, rows |-> 7],
    [path |-> "/big", d |-> FALSE, rows |-> 0] }
    \cup {[path |-> "/big/" \o ManyTables[i], d |-> TRUE, rows |-> 1] :
              i \in DOMAIN ManyTables}

\* str(Path(s)): trailing slashes go.
RECURSIVE Path(_)
Path(s) ==
    IF Len(s) > 1 /\ At(s, Len(s)) = "/" THEN Path(SubSeq(s, 1, Len(s) - 1)) ELSE s

\* path.name: the last component.
RECURSIVE path_name(_)
path_name(path) ==
    IF path = "" \/ At(path, Len(path)) = "/" THEN ""
    ELSE path_name(SubSeq(path, 1, Len(path) - 1)) \o At(path, Len(path))

\* path.parent
path_parent(path) == SubSeq(path, 1, Len(path) - Len(path_name(path)) - 1)

\* path.exists(), (path / '.d').exists()
path_exists(path) == \E dir \in Directories : dir.path = path
has_d(path) == \E dir \in Directories : dir.path = path /\ dir.d
RowsAt(path) == (CHOOSE dir \in Directories : dir.path = path).rows

\* Whether q takes name as the name of a global to assign: a letter, then
\* letters, digits and underscores.
Q_NAME_REGEX == re_compile("^[a-zA-Z][a-zA-Z0-9_]*$", FALSE)
q_name(name) == re_match(Q_NAME_REGEX, name) /\ At(name, Len(name)) # "\n"

\* kx.q(f'{table_name}: get`:{path}')
GetQuery(slotkind, table_name, path) ==
    <<[kind |-> slotkind, slot |-> "table_name", v |-> table_name],
      Tpl(": get"), Tpl(BACKTICK), Tpl(":"), PathPart(path)>>

\* load_tables_from_directory(data_dir): the names loaded, and the session.
load_tables_from_directory(data_dir) ==
    LET items == {dir \in Directories :
                      path_parent(dir.path) = Path(data_dir) /\ dir.d
                          /\ q_name(path_name(dir.path))}
        names == {path_name(dir.path) : dir \in items}
        T == [t \in names |-> RowsAt(Path(data_dir) \o "/" \o t)]
    IN [loaded |-> TableList(T, 1), tables |-> T]

server_info(arguments, T, eng, data_dir) ==
    LET tbls == TableList(T, 1)
        table_info == [i \in 1..Len(tbls) |->
                          IF eng.raise_at = i THEN "    " \o tbls[i] \o ": N/A"
                          ELSE "    " \o tbls[i] \o ": " \o Thousands(T[tbls[i]])
                                   \o " rows"]
    IN Respond("KDB+/PyKX Server Info:\n"
                   \o "  PyKX Version: 3.1.0\n"
                   \o "  PyKX Licensed: False\n"
                   \o "  Data Directory: "
                   \o (IF Truthy(data_dir) THEN py_str(data_dir) ELSE "Not set") \o "\n"
                   \o "  Loaded Tables (" \o ToString(Len(tbls)) \o "):\n"
                   \o str_join(table_info, "\n"),
               <<TablesCall>> \o [i \in 1..Len(tbls) |->
                                     IF eng.raise_at = i
                                     THEN Raised(Call(<<Tpl("count "), EngineName(tbls[i])>>))
                                     ELSE Call(<<Tpl("count "), EngineName(tbls[i])>>)],
               T)

\* load_table with the name validated before the path is looked at.
load_table_NameFirst(arguments, T, eng) ==
    LET table_path == Get(arguments, "table_path", NoneVal)
        given == Get(arguments, "table_name", NoneVal)
        path == Path(table_path.s)
        table_name == IF Truthy(given) THEN given ELSE StrVal(path_name(path))
        assign == Call(GetQuery("ident", table_name, path))
        counting == Call(<<Tpl("count "), Ident("table_name", table_name)>>)
        T1 == WithTable(T, table_name.s, RowsAt(path))
    IN IF ~Truthy(table_path) THEN Respond("Error: table_path is required", <<>>, T)
       ELSE IF ~validate_table_name(table_name.s)
       THEN Respond("Error: Invalid table name format", <<>>, T)
       ELSE IF ~path_exists(path)
       THEN Respond("Error: Path '" \o table_path.s \o "' does not exist", <<>>, T)
       ELSE IF ~has_d(path)
       THEN Respond("Error: '" \o table_path.s \o "' is not a valid splayed table",
                    <<>>, T)
       ELSE IF eng.raise_at = 1 \/ ~q_name(table_name.s)
       THEN OnQError(QErrorMessage, <<assign>>, T)
       ELSE IF eng.raise_at = 2 THEN OnQError(QErrorMessage, <<assign, counting>>, T1)
       ELSE Respond("Loaded table '" \o table_name.s \o "' with "
                        \o Thousands(T1[table_name.s]) \o " rows",
                    <<assign, counting>>, T1)

load_table(arguments, T, eng) ==
    LET table_path == Get(arguments, "table_path", NoneVal)
        given == Get(arguments, "table_name", NoneVal)
        path == Path(table_path.s)
        table_name == IF Truthy(given) THEN given ELSE StrVal(path_name(path))
        assign == Call(GetQuery("ident", table_name, path))
        counting == Call(<<Tpl("count "), Ident("table_name", table_name)>>)
        T1 == WithTable(T, table_name.s, RowsAt(path))
    IN IF ~Truthy(table_path) THEN Respond("Error: table_path is required", <<>>, T)
       ELSE IF table_path.t # "str"
       THEN OnException("expected str, bytes or os.PathLike object, not int", <<>>, T)
       ELSE IF ~path_exists(path)
       THEN Respond("Error: Path '" \o table_path.s \o "' does not exist", <<>>, T)
       ELSE IF ~has_d(path)
       THEN Respond("Error: '" \o table_path.s \o "' is not a valid splayed table",
                    <<>>, T)
       ELSE IF table_name.t # "str" THEN OnException(TypeErrorMatch, <<>>, T)
       ELSE IF ~validate_table_name(table_name.s)
       THEN Respond("Error: Invalid table name format", <<>>, T)
       ELSE IF eng.raise_at = 1 \/ ~q_name(table_name.s)
       THEN OnQError(QErrorMessage, <<assign>>, T)
       ELSE IF eng.raise_at = 2 THEN OnQError(QErrorMessage, <<assign, counting>>, T1)
       ELSE Respond("Loaded table '" \o table_name.s \o "' with "
                        \o Thousands(T1[table_name.s]) \o " rows",
                    <<assign, counting>>, T1)

\* else: no tool of that name
unknown_tool_NoName(name) == "Unknown tool"
unknown_tool(name) == "Unknown tool: " \o name

(***************************************************************************)
(* The server as a state machine: main sets the globals and loads the      *)
(* tables of the data directory, then every step is one call_tool          *)
(* invocation: a tool name, its arguments, and what the engine answers.    *)
(***************************************************************************)
\* The arguments of an invocation: the keys the caller gave (ABSENT: not given).
Present(f) == [k \in {x \in DOMAIN f : f[x] # ABSENT} |-> f[k]]
Arguments(fields) == {Present(f) : f \in fields}
NoArguments == Present([table_name |-> ABSENT])

\* Values callers send.
TableNames ==
    {ABSENT, StrVal("stocks"), StrVal("trades"), StrVal("stocks\n"), StrVal("a;b")}
Columns == {ABSENT, StrVal("close"), StrVal("close\n"), StrVal("x;exit 0")}
PriceColumns ==
    {ABSENT, StrVal("high"), StrVal("x from stocks;exit 0;select x"),
     StrVal("x from stocks;" \o DeleteStatement \o ";select x")}
Limits(cap) == {ABSENT, IntVal(5), IntVal(cap), IntVal(cap + 1), StrVal("2#x")}
FreeLimits == {ABSENT, IntVal(5), IntVal(20000), StrVal("0;exit 0;")}
Symbols == {ABSENT, StrVal("aapl"), NoneVal, StrVal("a\";exit 0;\"")}
Dates == {ABSENT, StrVal("2020.01.01"), StrVal("0;exit 0"), StrVal("")}

\* What the engine answers in an invocation that reads no result, and in one
\* of a single data query.
NoOracle == [raise_at |-> 0, result |-> [str |-> "42", len |-> -1], n |-> 0]
OneQuery ==
    {eng \in Oracles : /\ eng.raise_at <= 1 /\ eng.n = 0
                       /\ (eng.raise_at = 1 => eng.result = NoOracle.result)}

\* async def main(): the globals and the session when the server starts.
Init ==
    \E data_dir \in {NoneVal, StrVal("/data"), StrVal("/nope"), StrVal("/big")} :
        /\ pc = "start"
        /\ request = [name |-> "", arguments |-> NoArguments]
        /\ response = NoRet
        /\ calls = <<>>
        /\ DATA_DIR = (IF Truthy(data_dir) THEN data_dir ELSE NoneVal)
        /\ LOADED_TABLES = (IF Truthy(data_dir)
                            THEN load_tables_from_directory(data_dir.s).loaded
                            ELSE <<>>)
        /\ tables = (IF Truthy(data_dir)
                     THEN load_tables_from_directory(data_dir.s).tables
                     ELSE [t \in {} |-> 0])

\* call_tool, were load_table to enter the table in LOADED_TABLES.
Invoke_RegistersLoaded(nm, a, out) ==
    /\ pc = "start"
    /\ pc' = "returned"
    /\ request' = [name |-> nm, arguments |-> a]
    /\ response' = out.text
    /\ calls' = out.calls
    /\ tables' = out.tables
    /\ LOADED_TABLES' = (IF nm = "load_table" THEN TableList(out.tables, 1)
                         ELSE LOADED_TABLES)
    /\ UNCHANGED DATA_DIR

\* call_tool(name, arguments) answering out.
Invoke(nm, a, out) ==
    /\ pc = "start"
    /\ pc' = "returned"
    /\ request' = [name |-> nm, arguments |-> a]
    /\ response' = out.text
    /\ calls' = out.calls
    /\ tables' = out.tables
    /\ UNCHANGED <<DATA_DIR, LOADED_TABLES>>

ListTables ==
    Invoke("list_tables", NoArguments, list_tables(NoArguments, tables, NoOracle))

TableSchema ==
    \E a \in Arguments([table_name : TableNames]),
       eng \in OneQuery :
        Invoke("table_schema", a, table_schema(a, tables, eng))

TableCount ==
    \E a \in Arguments([table_name : TableNames]),
       eng \in OneQuery :
        Invoke("table_count", a, table_count(a, tables, eng))

TableSample ==
    \E a \in Arguments([table_name : TableNames, num_rows : Limits(100)]),
       eng \in OneQuery :
        Invoke("table_sample", a, table_sample(a, tables, eng))

ColumnNames ==
    \E a \in Arguments([table_name : TableNames]),
       eng \in OneQuery :
        Invoke("column_names", a, column_names(a, tables, eng))

DistinctValues ==
    \E a \in Arguments([table_name : TableNames, column_name : Columns, limit : Limits(500)]),
       eng \in OneQuery :
        Invoke("distinct_values", a, distinct_values(a, tables, eng))

CountByGroup ==
    \E a \in Arguments([table_name : TableNames, group_column : Columns]),
       eng \in OneQuery :
        Invoke("count_by_group", a, count_by_group(a, tables, eng))

DateRange ==
    \E a \in Arguments([table_name : TableNames, date_column : Columns]),
       eng \in OneQuery :
        Invoke("date_range", a, date_range(a, tables, eng))

DataPointsPerDay ==
    \E a \in Arguments([table_name : TableNames, date_column : Columns, limit : FreeLimits]),
       eng \in OneQuery :
        Invoke("data_points_per_day", a, data_points_per_day(a, tables, eng))

ColumnStats ==
    \E a \in Arguments([table_name : TableNames, column_name : Columns]),
       eng \in OneQuery :
        Invoke("column_stats", a, column_stats(a, tables, eng))

AveragePriceBySymbol ==
    \E a \in Arguments([table_name : TableNames, price_column : PriceColumns]),
       eng \in OneQuery :
        Invoke("average_price_by_symbol", a, average_price_by_symbol(a, tables, eng))

PriceRangeBySymbol ==
    \E a \in Arguments([table_name : TableNames, price_column : PriceColumns]),
       eng \in OneQuery :
        Invoke("price_range_by_symbol", a, price_range_by_symbol(a, tables, eng))

HighestPrices ==
    \E a \in Arguments([table_name : TableNames, price_column : PriceColumns]),
       eng \in OneQuery :
        Invoke("highest_prices", a, highest_prices(a, tables, eng))

PriceVolatility ==
    \E a \in Arguments([table_name : TableNames, price_column : PriceColumns]),
       eng \in OneQuery :
        Invoke("price_volatility", a, price_volatility(a, tables, eng))

PriceStatistics ==
    \E a \in Arguments([table_name : TableNames, price_column : PriceColumns]),
       eng \in OneQuery :
        Invoke("price_statistics", a, price_statistics(a, tables, eng))

AverageVolumeBySymbol ==
    \E a \in Arguments([table_name : TableNames]),
       eng \in OneQuery :
        Invoke("average_volume_by_symbol", a, average_volume_by_symbol(a, tables, eng))

TotalVolumeBySymbol ==
    \E a \in Arguments([table_name : TableNames]),
       eng \in OneQuery :
        Invoke("total_volume_by_symbol", a, total_volume_by_symbol(a, tables, eng))

TopVolumeRecords ==
    \E a \in Arguments([table_name : TableNames, limit : FreeLimits]),
       eng \in OneQuery :
        Invoke("top_volume_records", a, top_volume_records(a, tables, eng))

FilterBySymbol ==
    \E a \in Arguments([table_name : TableNames, symbol : Symbols, limit : Limits(1000)]),
       eng \in {e \in Oracles :
                  /\ e.result.len # 150
                  /\ (e.raise_at # 0 => e.result = NoOracle.result /\ e.n = 0)} :
        Invoke("filter_by_symbol", a, filter_by_symbol(a, tables, eng))

FilterByPriceThreshold ==
    \E a \in Arguments([table_name : TableNames, price_column : PriceColumns,
                        threshold : {ABSENT, IntVal(500), StrVal("0;exit 0")},
                        operator : {ABSENT, StrVal("gt"), StrVal("lt"), StrVal("gte"),
                                    StrVal("lte"), StrVal(";drop")}]),
       eng \in OneQuery :
        Invoke("filter_by_price_threshold", a, filter_by_price_threshold(a, tables, eng))

FilterByDate ==
    \E a \in Arguments([table_name : TableNames,
                        year : {ABSENT, IntVal(2020), IntVal(0),
                                StrVal("2020.01.01;exit 0;")},
                        start_date : Dates, end_date : Dates]),
       eng \in OneQuery :
        Invoke("filter_by_date", a, filter_by_date(a, tables, eng))

SymbolSummary ==
    \E a \in Arguments([table_name : TableNames, symbol : Symbols]),
       eng \in OneQuery :
        Invoke("symbol_summary", a, symbol_summary(a, tables, eng))

DailyOhlc ==
    \E a \in Arguments([table_name : TableNames, symbol : Symbols, limit : FreeLimits]),
       eng \in OneQuery :
        Invoke("daily_ohlc", a, daily_ohlc(a, tables, eng))

PriceChangeAnalysis ==
    \E a \in Arguments([table_name : TableNames]),
       eng \in OneQuery :
        Invoke("price_change_analysis", a, price_change_analysis(a, tables, eng))

ExecuteQuery ==
    \E a \in Arguments([query : {ABSENT, NoneVal, StrVal("  "),
                                 StrVal(" select from stocks "), StrVal("exit 0"),
                                 StrVal("Delete  From stocks"),
                                 StrVal(AssignStatement), StrVal(DeleteStatement)},
                        max_rows : Limits(10000)]),
       eng \in {e \in Oracles :
                  e.n = 0 /\ (e.raise_at = 1 => e.result = NoOracle.result)} :
        Invoke("execute_query", a, execute_query(a, tables, eng))

ServerInfo ==
    \E eng \in {e \in Oracles : e.n = 0 /\ e.result = NoOracle.result} :
        Invoke("server_info", NoArguments,
               server_info(NoArguments, tables, eng, DATA_DIR))

LoadTable ==
    \E a \in Arguments([table_path : {ABSENT, StrVal("/nope"), StrVal("/data/plain"),
                                      StrVal("/data/2bad"), StrVal("/archive/trades"),
                                      StrVal("/archive/trades/")},
                        table_name : {ABSENT, StrVal("trades"), StrVal("2bad")}]),
       eng \in {e \in Oracles : e.n = 0 /\ e.result = NoOracle.result} :
        Invoke("load_table", a, load_table(a, tables, eng))

UnknownTool ==
    \E nm \in {"", "drop_table", "Table_Count"},
       a \in Arguments([table_name : TableNames, query : {ABSENT, StrVal("exit 0")}]) :
        Invoke(nm, a, Respond(unknown_tool(nm), <<>>, tables))

\* The response is delivered; the server waits for the next request.
Delivered ==
    /\ pc = "returned"
    /\ pc' = "start"
    /\ request' = [name |-> "", arguments |-> NoArguments]
    /\ response' = NoRet
    /\ calls' = <<>>
    /\ UNCHANGED <<tables, DATA_DIR, LOADED_TABLES>>

Next ==
    \/ ListTables
    \/ TableSchema
    \/ TableCount
    \/ TableSample
    \/ ColumnNames
    \/ DistinctValues
    \/ CountByGroup
    \/ DateRange
    \/ DataPointsPerDay
    \/ ColumnStats
    \/ AveragePriceBySymbol
    \/ PriceRangeBySymbol
    \/ HighestPrices
    \/ PriceVolatility
    \/ PriceStatistics
    \/ AverageVolumeBySymbol
    \/ TotalVolumeBySymbol
    \/ TopVolumeRecords
    \/ FilterBySymbol
    \/ FilterByPriceThreshold
    \/ FilterByDate
    \/ SymbolSummary
    \/ DailyOhlc
    \/ PriceChangeAnalysis
    \/ ExecuteQuery
    \/ ServerInfo
    \/ LoadTable
    \/ UnknownTool
    \/ Delivered

Spec == Init /\ [][Next]_vars

(***************************************************************************)
(* Properties of the dispatcher, checked under Spec.                       *)
(***************************************************************************)
\* The parts of the queries the invocation sent to the engine.
SentParts == {calls[i].query[j] : <<i, j>> \in
                 {ij \in (1..Len(calls)) \X (1..8) : ij[2] <= Len(calls[ij[1]].query)}}
PartsOfKind(kind) == {part \in SentParts : part.kind = kind}
Templated == pc = "returned" /\ request.name # "execute_query"
Given(key, default) == Get(request.arguments, key, default)

\* C1: in every invocation of a tool other than execute_query, every table
\* name, column name and group-by key substituted into a query sent to the
\* engine is one the identifier validator accepts.
C1_IdentifiersValidated ==
    Templated =>
        \A part \in PartsOfKind("ident") :
            part.v.t = "str" /\ validate_column_name(part.v.s)

\* The stripped query of an execute_query invocation matches a pattern of
\* DANGEROUS_PATTERNS.
DangerousRequest ==
    /\ pc = "returned"
    /\ request.name = "execute_query"
    /\ Given("query", NoneVal).t = "str"
    /\ \E i \in 1..Len(DANGEROUS_PATTERNS) :
           re_search(re_compile(DANGEROUS_PATTERNS[i], TRUE),
                     str_strip(Given("query", NoneVal).s))
StartsWith(s, prefix) == Len(s) >= Len(prefix) /\ SubSeq(s, 1, Len(prefix)) = prefix
BlockedText ==
    "Error: Query blocked for safety. "
        \o is_dangerous_query(str_strip(Given("query", NoneVal).s))[2]

\* C2 as stated: an execute_query invocation whose stripped query matches a
\* pattern of DANGEROUS_PATTERNS makes no engine call and answers
\* "Error: Query blocked for safety. <reason>".
C2_DangerousQueryBlocked ==
    DangerousRequest => calls = <<>> /\ response = BlockedText

\* C2 as amended: such an invocation makes no engine call, and answers
\* "Error: Query blocked for safety. <reason>" when max_rows is absent or an
\* integer; when max_rows is not a number, min() raises before the scan and
\* the answer is that TypeError's "Error: ..." text.
C2_DangerousQueryNeverRuns ==
    DangerousRequest =>
        /\ calls = <<>>
        /\ IF Given("max_rows", IntVal(100)).t = "int"
           THEN response = BlockedText
           ELSE StartsWith(response, "Error: '<' not supported between instances of ")

\* A dangerous query is blocked in a session an earlier load_table wrote.
C2_Witness ==
    /\ DangerousRequest
    /\ Given("query", NoneVal) = StrVal("exit 0")
    /\ response = "Error: Query blocked for safety. " \o ReasonPrefix \o "\\bexit\\b"
    /\ calls = <<>>
    /\ DATA_DIR = NoneVal
    /\ "trades" \in DOMAIN tables

\* What a literal slot may hold: an integer in a row count or a year, a
\* number in a threshold, a date YYYY.MM.DD in a date, one of the four
\* comparison tokens in an operator, a string in a symbol.
IsDigits(s) == \A i \in 1..Len(s) : At(s, i) \in Chars(Digits)
IsDateLiteral(s) ==
    /\ Len(s) = 10
    /\ IsDigits(SubSeq(s, 1, 4)) /\ At(s, 5) = "."
    /\ IsDigits(SubSeq(s, 6, 7)) /\ At(s, 8) = "."
    /\ IsDigits(SubSeq(s, 9, 10))
TypedLiteral(part) ==
    CASE part.slot \in {"limit", "num_rows", "max_rows", "year", "threshold"} ->
             part.v.t = "int"
      [] part.slot \in {"start_date", "end_date"} ->
             part.v.t = "str" /\ IsDateLiteral(part.v.s)
      [] part.slot = "operator" -> part.v \in {StrVal(">"), StrVal("<"),
                                               StrVal(">="), StrVal("<=")}
      [] OTHER -> part.v.t = "str"

\* C6: in every invocation of a tool other than execute_query, every
\* literal slot of a query sent to the engine holds a value of its declared
\* type, never the caller's free text.
C6_LiteralsCoerced ==
    Templated => \A part \in PartsOfKind("literal") : TypedLiteral(part)

\* The three documented caps: the argument, its default and its cap.
DocumentedCaps ==
    [table_sample |-> [slot |-> "num_rows", default |-> 10, cap |-> 100],
     distinct_values |-> [slot |-> "limit", default |-> 50, cap |-> 500],
     execute_query |-> [slot |-> "max_rows", default |-> 100, cap |-> 10000]]

\* C7: in table_sample, distinct_values and execute_query the row count
\* substituted into a query is min(requested, cap), the request defaulting
\* to 10, 50 and 100 and the caps being 100, 500 and 10000.
C7_DocumentedCapsAreMin ==
    pc = "returned" /\ request.name \in DOMAIN DocumentedCaps =>
        LET doc == DocumentedCaps[request.name]
            requested == Given(doc.slot, IntVal(doc.default))
        IN \A part \in PartsOfKind("literal") :
               part.slot = doc.slot =>
                   requested.t = "int" /\ part.v = IntVal(Min({requested.n, doc.cap}))

\* table_sample asked for 101 rows sends a query for 100.
C7_Witness ==
    /\ pc = "returned"
    /\ request.name = "table_sample"
    /\ Given("num_rows", ABSENT) = IntVal(101)
    /\ Len(calls) = 2
    /\ QueryText(calls[2].query) = "100#stocks"

\* The largest cap a tool documents.
LimitCeiling == 10000
LimitTools ==
    {"table_sample", "distinct_values", "data_points_per_day", "top_volume_records",
     "filter_by_symbol", "daily_ohlc", "execute_query"}

\* C8: in every tool that takes a row count or limit, the value that
\* reaches the query is an integer no greater than a fixed maximum.
C8_LimitsBounded ==
    pc = "returned" /\ request.name \in LimitTools =>
        \A part \in PartsOfKind("literal") :
            part.slot \in {"limit", "num_rows", "max_rows"} =>
                part.v.t = "int" /\ part.v.n <= LimitCeiling

\* C11: the text of every response has at most 100 lines, the heading and
\* the summary line of a cut result not counted, and no line is longer than
\* the width cap plus the ellipsis.
C11_ResponseWithinCaps ==
    pc = "returned" =>
        LET lines == str_split(response, "\n")
        IN /\ Len(lines) <= MAX_LINES + 2
           /\ \A i \in 1..Len(lines) : Len(lines[i]) <= MAX_WIDTH + 3

\* The tools call_tool handles; those of them that take a table name and
\* look it up before their data query.
ToolNames ==
    {"list_tables", "table_schema", "table_count", "table_sample", "column_names",
     "distinct_values", "count_by_group", "date_range", "data_points_per_day",
     "column_stats", "average_price_by_symbol", "price_range_by_symbol",
     "highest_prices", "price_volatility", "price_statistics",
     "average_volume_by_symbol", "total_volume_by_symbol", "top_volume_records",
     "filter_by_symbol", "filter_by_price_threshold", "filter_by_date",
     "symbol_summary", "daily_ohlc", "price_change_analysis", "execute_query",
     "server_info", "load_table"}
TableTools == ToolNames \ {"list_tables", "execute_query", "server_info", "load_table"}
IsErrorText(text) == StartsWith(text, "Error: ") \/ StartsWith(text, "KDB+ Error: ")
AnyCallRaised == \E i \in 1..Len(calls) : calls[i].raised

\* C12: every invocation returns one text block, never an exception; an
\* invocation that stops before any engine call (validation, missing
\* argument, safety block, any other exception) or at the existence lookup
\* (not found), or in which an engine call raised, answers with an error
\* text.
C12_FailuresAreErrorTexts ==
    pc = "returned" =>
        /\ response # NoRet
        /\ (request.name \in ToolNames /\ calls = <<>> => StartsWith(response, "Error: "))
        /\ (request.name \in TableTools /\ calls = <<TablesCall>> =>
                StartsWith(response, "Error: "))
        /\ (AnyCallRaised => IsErrorText(response))

\* The arguments each tool's schema requires.
RequiredArguments ==
    [nm \in ToolNames |->
        CASE nm \in {"table_schema", "table_count", "table_sample", "column_names",
                     "date_range", "data_points_per_day"} -> {"table_name"}
          [] nm \in {"distinct_values", "column_stats"} -> {"table_name", "column_name"}
          [] nm = "count_by_group" -> {"table_name", "group_column"}
          [] nm \in {"filter_by_symbol", "symbol_summary", "daily_ohlc"} -> {"symbol"}
          [] nm = "filter_by_price_threshold" -> {"threshold"}
          [] nm = "execute_query" -> {"query"}
          [] nm = "load_table" -> {"table_path"}
          [] OTHER -> {}]
IdentifierArguments ==
    {"table_name", "column_name", "group_column", "date_column", "price_column"}

\* An identifier argument the validator rejects was given, or a required
\* argument was not.
InvalidRequest ==
    /\ pc = "returned"
    /\ request.name \in ToolNames
    /\ \/ \E key \in IdentifierArguments \cap DOMAIN request.arguments :
              /\ request.arguments[key].t = "str"
              /\ ~validate_table_name(request.arguments[key].s)
       \/ \E key \in RequiredArguments[request.name] : key \notin DOMAIN request.arguments

\* C13: an invocation given an identifier argument that fails the grammar,
\* or lacking a required argument, answers with an error text and makes no
\* engine call, neither the tables[] lookup nor a data query.
C13_InvalidRequestNoEngineCall ==
    InvalidRequest => IsErrorText(response) /\ calls = <<>>

\* A step that is an invocation of a table tool, given a table name that
\* is not in the session as the step finds it.
UnknownTableStep ==
    /\ pc' = "returned"
    /\ request'.name \in TableTools
    /\ "table_name" \in DOMAIN request'.arguments
    /\ request'.arguments.table_name.t = "str"
    /\ request'.arguments.table_name.s \notin DOMAIN tables
NotFoundText(arguments) == "Error: Table '" \o arguments.table_name.s \o "' not found"

\* In every invocation of a table tool the lookup precedes the data query.
LookupFirstStep ==
    pc' = "returned" /\ request'.name \in TableTools /\ Len(calls') >= 2 =>
        calls'[1] = TablesCall

\* C14 as stated: a table tool given a name that is not in tables[] answers
\* "Error: Table '<name>' not found" and sends no query on that table; the
\* lookup precedes the data query.
C14_UnknownTableNotFound ==
    [][/\ (UnknownTableStep =>
               /\ response' = NotFoundText(request'.arguments)
               /\ calls' = <<TablesCall>>)
        /\ LookupFirstStep]_vars

\* C14 as amended: such an invocation sends no query on the table and
\* answers with an error text: "Error: Table '<name>' not found" when it
\* reaches the lookup, the error of the check that fails before the lookup
\* otherwise; the lookup precedes every data query.
C14_UnknownTableNoQuery ==
    [][/\ (UnknownTableStep =>
               /\ calls' \in {<<>>, <<TablesCall>>}
               /\ StartsWith(response', "Error: ")
               /\ ((calls' = <<TablesCall>>) <=>
                      (response' = NotFoundText(request'.arguments))))
        /\ LookupFirstStep]_vars

\* table_count of trades in a session that holds stocks only.
C14_Witness ==
    /\ pc = "returned"
    /\ request.name = "table_count"
    /\ Given("table_name", ABSENT) = StrVal("trades")
    /\ "stocks" \in DOMAIN tables
    /\ calls = <<TablesCall>>
    /\ response = "Error: Table 'trades' not found"

\* C15: whenever an engine call of the invocation raised a QError, the
\* response is "KDB+ Error: <engine message>".
C15_EngineErrorsReported ==
    pc = "returned" /\ AnyCallRaised => response = "KDB+ Error: " \o QErrorMessage

\* C16: a name that is not a tool of call_tool is answered with exactly
\* "Unknown tool: <name>" and with no engine call, whatever the arguments.
C16_UnknownToolAnswer ==
    pc = "returned" /\ request.name \notin ToolNames =>
        response = "Unknown tool: " \o request.name /\ calls = <<>>

\* drop_table, given a table name and a query.
C16_Witness ==
    /\ pc = "returned"
    /\ request.name = "drop_table"
    /\ Given("table_name", ABSENT) = StrVal("stocks")
    /\ Given("query", ABSENT) = StrVal("exit 0")
    /\ "stocks" \in DOMAIN tables
    /\ response = "Unknown tool: drop_table"
    /\ calls = <<>>

\* sub in text, of Python.
Contains(text, sub) ==
    \E i \in 1..(Len(text) - Len(sub) + 1) : SubSeq(text, i, i + Len(sub) - 1) = sub

\* table_count was invoked on a valid name of a table of the session.
CountRequest ==
    /\ pc = "returned"
    /\ request.name = "table_count"
    /\ Given("table_name", NoneVal).t = "str"
    /\ validate_table_name(Given("table_name", NoneVal).s)
    /\ Given("table_name", NoneVal).s \in DOMAIN tables
CountedTable == Given("table_name", NoneVal).s

\* C17 as stated: table_count of an existing table t sends exactly
\* "count t" as its data query, and when the count returns the response holds
\* the count and the name t.
C17_CountQueryAndText ==
    CountRequest =>
        /\ Len(calls) = 2
        /\ QueryText(calls[2].query) = "count " \o CountedTable
        /\ ~calls[2].raised =>
               /\ Contains(response, ToString(tables[CountedTable]))
               /\ Contains(response, CountedTable)

\* C17 as amended: ... the response holds the name t and the count written
\* with a comma between its groups of three digits (1234 is "1,234").
C17_CountQueryAndGroupedText ==
    CountRequest =>
        /\ Len(calls) = 2
        /\ QueryText(calls[2].query) = "count " \o CountedTable
        /\ ~calls[2].raised =>
               /\ Contains(response, " " \o Thousands(tables[CountedTable]) \o " ")
               /\ Contains(response, "'" \o CountedTable \o "'")
               /\ (tables[CountedTable] < 1000 =>
                       Contains(response, ToString(tables[CountedTable])))

\* table_count of stocks, of 1234 rows.
C17_Witness ==
    /\ CountRequest
    /\ CountedTable = "stocks"
    /\ QueryText(calls[2].query) = "count stocks"
    /\ response = "Table 'stocks' has 1,234 rows"

\* The token the claim gives each operator name.
OperatorTokens == [gt |-> ">", lt |-> "<", gte |-> ">=", lte |-> "<="]
ExpectedToken ==
    LET operator == Given("operator", StrVal("gt"))
    IN IF operator.t = "str" /\ operator.s \in DOMAIN OperatorTokens
       THEN OperatorTokens[operator.s] ELSE ">"

\* C18: in filter_by_price_threshold the operator token of the query is
\* ">" for gt, "<" for lt, ">=" for gte, "<=" for lte, and ">" for a missing
\* or any other operator name.
C18_OperatorMapped ==
    pc = "returned" /\ request.name = "filter_by_price_threshold" /\ Len(calls) = 2 =>
        LET query == calls[2].query
        IN /\ \E i \in 1..Len(query) : query[i].slot = "operator"
           /\ \A i \in 1..Len(query) :
                  query[i].slot = "operator" =>
                      /\ query[i].v = StrVal(ExpectedToken)
                      /\ i > 1 /\ query[i - 1] = Tpl(" ")
                      /\ i + 2 = Len(query) /\ query[i + 1] = Tpl(" ")
                      /\ query[i + 2].slot = "threshold"

\* gte reaches the query as ">=".
C18_Witness ==
    /\ pc = "returned"
    /\ request.name = "filter_by_price_threshold"
    /\ Given("operator", ABSENT) = StrVal("gte")
    /\ Given("threshold", ABSENT) = IntVal(500)
    /\ Given("price_column", ABSENT) = ABSENT
    /\ Len(calls) = 2
    /\ QueryText(calls[2].query)
           = "select cnt: count i, symbols: distinct symbol from stocks where close >= 500"

\* execute_query sent the caller's query to the engine.
ExecutedQuery ==
    pc = "returned" /\ request.name = "execute_query" /\ calls # <<>>

\* C19 as stated: when execute_query makes a second engine call, it sends
\* the caller's whole query again, prefixed with the take-limit; otherwise
\* the query is sent once.
C19_QueryExecutedTwice ==
    ExecutedQuery =>
        /\ calls[1].query = <<FreeText(str_strip(Given("query", NoneVal).s))>>
        /\ ~calls[1].operand
        /\ Len(calls) <= 2
        /\ Len(calls) = 2 =>
               /\ ~calls[2].operand
               /\ QueryText(calls[2].query)
                      = ToString(Min({Given("max_rows", IntVal(100)).n, 10000})) \o "#"
                            \o str_strip(Given("query", NoneVal).s)

\* C19 as amended: the caller's query is sent once, as the first call; the
\* second call, made when the response is cut to the row cap, is the take
\* "<cap>#" applied to the result already fetched, without the query text.
C19_QueryExecutedOnce ==
    ExecutedQuery =>
        /\ calls[1].query = <<FreeText(str_strip(Given("query", NoneVal).s))>>
        /\ ~calls[1].operand
        /\ Len(calls) <= 2
        /\ StartsWith(response, "Query result (limited to ") => Len(calls) = 2
        /\ Len(calls) = 2 =>
               /\ calls[2].operand
               /\ QueryText(calls[2].query)
                      = ToString(Min({Given("max_rows", IntVal(100)).n, 10000})) \o "#"
               /\ calls[2].raised \/ StartsWith(response, "Query result (limited to ")

\* A result of more than 100 rows, cut by a take on the fetched result.
C19_Witness ==
    /\ ExecutedQuery
    /\ Given("query", ABSENT) = StrVal(" select from stocks ")
    /\ Given("max_rows", ABSENT) = ABSENT
    /\ Len(calls) = 2
    /\ QueryText(calls[1].query) = "select from stocks"
    /\ QueryText(calls[2].query) = "100#"
    /\ calls[2].operand
    /\ StartsWith(response, "Query result (limited to 100 rows):\n")

\* C20: once an engine call of an invocation raised, the same query is not
\* sent again in that invocation, and the invocation answers with an error
\* text.
C20_NoRetry ==
    pc = "returned" =>
        \A i \in 1..Len(calls) :
            calls[i].raised =>
                /\ \A j \in (i + 1)..Len(calls) :
                       ~(calls[j].query = calls[i].query
                             /\ calls[j].operand = calls[i].operand)
                /\ IsErrorText(response)

\* C22: no invocation changes DATA_DIR or LOADED_TABLES (the patterns of the
\* scanner are constants of the module): every step leaves them as main
\* set them; an invocation changes the engine's session only.
C22_GlobalsUnchanged ==
    [][DATA_DIR' = DATA_DIR /\ LOADED_TABLES' = LOADED_TABLES]_vars

\* load_table has put trades in the session; LOADED_TABLES is as at startup.
C22_Witness ==
    /\ pc = "returned"
    /\ request.name = "load_table"
    /\ response = "Loaded table 'trades' with 7 rows"
    /\ "trades" \in DOMAIN tables
    /\ DATA_DIR = StrVal("/data")
    /\ LOADED_TABLES = <<"stocks">>

\* C23: a load_table that answers "Loaded table 'n' with ..." leaves n in
\* the session; and as long as n is in the session, no table tool asked
\* about n answers that n is not found, and list_tables lists n.
C23_LoadedTableIsFound ==
    [][pc' = "returned" =>
          /\ (request'.name = "load_table" =>
                 \A n \in {path_name(dir.path) : dir \in Directories} \cup {"trades"} :
                     StartsWith(response', "Loaded table '" \o n \o "' with ")
                         => n \in DOMAIN tables')
          /\ (request'.name \in TableTools =>
                 \A n \in DOMAIN tables :
                     Get(request'.arguments, "table_name", NoneVal) = StrVal(n)
                         => response' # "Error: Table '" \o n \o "' not found")
          /\ (request'.name = "list_tables" =>
                 \A n \in DOMAIN tables : Contains(response', "  - " \o n))]_vars

\* trades, loaded by load_table and not at startup, is counted.
C23_Witness ==
    /\ pc = "returned"
    /\ request.name = "table_count"
    /\ Given("table_name", NoneVal) = StrVal("trades")
    /\ "trades" \in DOMAIN tables /\ tables["trades"] = 7
    /\ LOADED_TABLES = <<"stocks">>
    /\ response = "Table 'trades' has 7 rows"

\* C25: no tool other than execute_query sends the engine a query that
\* is_dangerous_query reports as dangerous.
C25_OnlyExecuteQuerySendsDangerous ==
    pc = "returned" /\ request.name # "execute_query" =>
        \A i \in 1..Len(calls) : ~is_dangerous_query(QueryText(calls[i].query))[1]

\* C26: an invocation of a tool other than load_table and execute_query
\* leaves the engine's session (the table names and their contents) as it
\* was.
C26_OnlyLoadAndExecuteWrite ==
    [][pc' = "returned" /\ request'.name \notin {"load_table", "execute_query"}
           => tables' = tables]_vars

\* C27: when execute_query finds the result longer than the cap c (it then
\* makes the second call, the take), the response has the heading "Query
\* result (limited to c rows):", never the plain "Query result:".
C27_OverCapIsTruncated ==
    ExecutedQuery /\ Len(calls) = 2 =>
        StartsWith(response,
                   "Query result (limited to "
                       \o ToString(Min({Given("max_rows", IntVal(100)).n, 10000}))
                       \o " rows):\n")

\* The first of load_table's checks that the request fails, 0 if none:
\* 1 no table_path, 2 no such path, 3 no .d file in it, 4 the table name
\* (the one given, else the last component of the path) is not valid.
FirstFailingCheck(arguments) ==
    LET path == Path(arguments.table_path.s)
        name == IF "table_name" \in DOMAIN arguments THEN arguments.table_name.s
                ELSE path_name(path)
    IN IF "table_path" \notin DOMAIN arguments THEN 1
       ELSE IF \A dir \in Directories : dir.path # path THEN 2
       ELSE IF \A dir \in Directories : dir.path = path => ~dir.d THEN 3
       ELSE IF ~validate_table_name(name) THEN 4
       ELSE 0

CheckErrorText(check, arguments) ==
    CASE check = 1 -> "Error: table_path is required"
      [] check = 2 -> "Error: Path '" \o arguments.table_path.s \o "' does not exist"
      [] check = 3 -> "Error: '" \o arguments.table_path.s \o "' is not a valid splayed table"
      [] check = 4 -> "Error: Invalid table name format"

\* C28: load_table answers with the error text of the first check the
\* request fails, in the order path given, path exists, .d file, table
\* name; it then makes no engine call and leaves the session as it was.
C28_LoadTableChecksInOrder ==
    [][pc' = "returned" /\ request'.name = "load_table"
           /\ FirstFailingCheck(request'.arguments) # 0
           => /\ response' = CheckErrorText(FirstFailingCheck(request'.arguments),
                                            request'.arguments)
              /\ calls' = <<>>
              /\ tables' = tables]_vars

\* A request failing the second check and the fourth: the second is reported.
C28_Witness ==
    /\ pc = "returned"
    /\ request.name = "load_table"
    /\ request.arguments = Present([table_path |-> StrVal("/nope"),
                                    table_name |-> StrVal("2bad")])
    /\ response = "Error: Path '/nope' does not exist"
    /\ calls = <<>>

\* filter_by_date was invoked on a table of the session.
DateRequest ==
    /\ pc = "returned"
    /\ request.name = "filter_by_date"
    /\ Given("table_name", StrVal("stocks")).s \in DOMAIN tables

YearQuery ==
    "select cnt: count i by symbol from " \o Given("table_name", StrVal("stocks")).s
        \o " where timestamp >= " \o py_str(Given("year", NoneVal)) \o ".01.01"

RangeQuery ==
    "select cnt: count i by symbol from " \o Given("table_name", StrVal("stocks")).s
        \o " where timestamp >= " \o py_str(Given("start_date", NoneVal))
        \o ", timestamp <= " \o py_str(Given("end_date", NoneVal))

EitherOrText == "Error: Provide either 'year' or both 'start_date' and 'end_date'"

\* C29 as stated: with year given the one data query is the year template;
\* else with both dates given it is the range template; otherwise the
\* answer is the either-or error and no data query is made.
C29_OneTemplateBySupplied ==
    DateRequest =>
        IF "year" \in DOMAIN request.arguments
        THEN Len(calls) = 2 /\ QueryText(calls[2].query) = YearQuery
        ELSE IF {"start_date", "end_date"} \subseteq DOMAIN request.arguments
        THEN Len(calls) = 2 /\ QueryText(calls[2].query) = RangeQuery
        ELSE response = EitherOrText /\ calls = <<TablesCall>>

\* C29 as amended: "given" is: given and neither 0 nor the empty string.
C29_OneTemplateByTruthy ==
    DateRequest =>
        IF Given("year", NoneVal) \notin {NoneVal, IntVal(0), StrVal("")}
        THEN Len(calls) = 2 /\ QueryText(calls[2].query) = YearQuery
        ELSE IF /\ Given("start_date", NoneVal) \notin {NoneVal, IntVal(0), StrVal("")}
                /\ Given("end_date", NoneVal) \notin {NoneVal, IntVal(0), StrVal("")}
        THEN Len(calls) = 2 /\ QueryText(calls[2].query) = RangeQuery
        ELSE response = EitherOrText /\ calls = <<TablesCall>>

\* Year and both dates given: the year template is the one used.
C29_Witness ==
    /\ DateRequest
    /\ request.arguments = Present([year |-> IntVal(2020),
                                    start_date |-> StrVal("2020.01.01"),
                                    end_date |-> StrVal("2020.01.01")])
    /\ Len(calls) = 2
    /\ QueryText(calls[2].query)
           = "select cnt: count i by symbol from stocks where timestamp >= 2020.01.01"
    /\ StartsWith(response, "Data from 2020 onward:\n")

(***************************************************************************)
(* The identifier validators on their own: every name of at most           *)
(* MaxNameLen characters of NameAlphabet is validated.                     *)
(***************************************************************************)
MaxNameLen == 3

NameAlphabet == {"a", "Z", "_", "7", " ", "\n", ";", BACKTICK}

InitValidate ==
    /\ pc = "start"
    /\ request \in [name : {""}, arguments : StringsUpTo(NameAlphabet, MaxNameLen)]
    /\ response = NoRet
    /\ calls = <<>>
    /\ tables = <<>>
    /\ DATA_DIR = NoneVal
    /\ LOADED_TABLES = <<>>

ValidateTableName ==
    /\ pc = "start"
    /\ pc' = "returned"
    /\ request' = [request EXCEPT !.name = "validate_table_name"]
    /\ response' = validate_table_name(request.arguments)
    /\ UNCHANGED <<calls, tables, DATA_DIR, LOADED_TABLES>>

ValidateColumnName ==
    /\ pc = "start"
    /\ pc' = "returned"
    /\ request' = [request EXCEPT !.name = "validate_column_name"]
    /\ response' = validate_column_name(request.arguments)
    /\ UNCHANGED <<calls, tables, DATA_DIR, LOADED_TABLES>>

NextValidate == ValidateTableName \/ ValidateColumnName

SpecValidate == InitValidate /\ [][NextValidate]_vars

\* The grammar of an identifier, stated on the characters: non-empty, ASCII
\* letters, digits and underscore only, no digit first.
IsIdentifier(s) ==
    /\ Len(s) >= 1
    /\ \A i \in 1..Len(s) : At(s, i) \in WordChars
    /\ At(s, 1) \notin Chars(Digits)

\* C3: validate_table_name(s) and validate_column_name(s) are true if and
\* only if s is an identifier as a whole; a name with whitespace anywhere,
\* a trailing newline included, is rejected.
C3_ValidateIffIdentifier ==
    request.name \in {"validate_table_name", "validate_column_name"}
        => (response = IsIdentifier(request.arguments))

(***************************************************************************)
(* The danger scanner on its own: every query of at most MaxPieces pieces  *)
(* of QueryPieces is scanned.                                              *)
(***************************************************************************)
MaxPieces == 3

QueryPieces == {"drop", "eXit", "SYSTEM", "Delete From", "delete", "from",
                "_", " ", ";", "\\"}

InitScan ==
    /\ pc = "start"
    /\ request \in [name : {""}, arguments : StringsUpTo(QueryPieces, MaxPieces)]
    /\ response = NoRet
    /\ calls = <<>>
    /\ tables = <<>>
    /\ DATA_DIR = NoneVal
    /\ LOADED_TABLES = <<>>

Scan ==
    /\ pc = "start"
    /\ pc' = "returned"
    /\ request' = [request EXCEPT !.name = "is_dangerous_query"]
    /\ response' = is_dangerous_query(request.arguments)
    /\ UNCHANGED <<calls, tables, DATA_DIR, LOADED_TABLES>>

NextScan == Scan

SpecScan == InitScan /\ [][NextScan]_vars

\* str.lower()
RECURSIVE str_lower(_)
str_lower(s) == IF s = "" THEN "" ELSE ToLower(At(s, 1)) \o str_lower(Tail(s))

\* w occurs in q in some letter case with no word character on either side.
ContainsWholeWord(q, w) ==
    \E i \in 1..(Len(q) - Len(w) + 1) :
        /\ str_lower(SubSeq(q, i, i + Len(w) - 1)) = w
        /\ ~IsWordAt(q, i - 1)
        /\ ~IsWordAt(q, i + Len(w))

\* The four words of the claim, each with the place of its pattern.
FourWords == {<<"drop", 1>>, <<"delete from", 2>>, <<"exit", 5>>, <<"system", 7>>}

\* The patterns that match query q.
Hits(q) == {i \in 1..Len(DANGEROUS_REGEX) : re_search(DANGEROUS_REGEX[i], q)}

\* C4: a query that holds "drop", "delete from", "system" or "exit" as a
\* whole word, in any letter case, is reported dangerous, and the reason
\* names the pattern that was matched: that word's pattern, unless a pattern
\* earlier in the list matches the query too and is the one named.
C4_FourWordsAreDangerous ==
    request.name = "is_dangerous_query" =>
        \A w \in FourWords :
            ContainsWholeWord(request.arguments, w[1]) =>
                /\ response[1] = TRUE
                /\ \E i \in 1..w[2] :
                       /\ response[2] = ReasonPrefix \o DANGEROUS_PATTERNS[i]
                       /\ i = w[2] \/ i \in Hits(request.arguments)

C4_Witness ==
    /\ request.name = "is_dangerous_query"
    /\ ContainsWholeWord(request.arguments, "system")
    /\ ~ContainsWholeWord(request.arguments, "exit")
    /\ request.arguments # str_lower(request.arguments)
    /\ response = <<TRUE, ReasonPrefix \o "\\bsystem\\b">>

\* C5: a query that matches no pattern is answered (False, ""), and a query
\* that matches several is answered with the reason of the first of them in
\* the order of the list.
C5_FirstMatchOrClean ==
    request.name = "is_dangerous_query" =>
        IF Hits(request.arguments) = {}
        THEN response = <<FALSE, "">>
        ELSE response = <<TRUE, ReasonPrefix \o DANGEROUS_PATTERNS[Min(Hits(request.arguments))]>>

C5_Witness ==
    /\ request.name = "is_dangerous_query"
    /\ Cardinality(Hits(request.arguments)) >= 2
    /\ response = <<TRUE, ReasonPrefix \o DANGEROUS_PATTERNS[Min(Hits(request.arguments))]>>

(***************************************************************************)
(* The formatter on its own: every text of at most MaxChunks chunks of     *)
(* ResultChunks is formatted.  The chunks reach 100 and 101 lines and      *)
(* widths of 120 and 121 characters.                                       *)
(***************************************************************************)
MaxChunks == 4

ResultChunks == {Rows(MAX_LINES - 1), "\n", Repeat("x", MAX_WIDTH), "a"}

InitFormat ==
    /\ pc = "start"
    /\ request \in [name : {""}, arguments : StringsUpTo(ResultChunks, MaxChunks)]
    /\ response = NoRet
    /\ calls = <<>>
    /\ tables = <<>>
    /\ DATA_DIR = NoneVal
    /\ LOADED_TABLES = <<>>

Format ==
    /\ pc = "start"
    /\ pc' = "returned"
    /\ request' = [request EXCEPT !.name = "format_result"]
    /\ response' = format_result(request.arguments, MAX_WIDTH)
    /\ UNCHANGED <<calls, tables, DATA_DIR, LOADED_TABLES>>

NextFormat == Format

SpecFormat == InitFormat /\ [][NextFormat]_vars

\* C9: a text of more than 100 lines is returned as its first 100 lines, in
\* order (each as far as the width cap), and one line "... (N more rows)"
\* with N the number of lines beyond 100; a text of at most 100 lines keeps
\* every line and gets no summary line.
C9_HundredLinesAndSummary ==
    request.name = "format_result" =>
        LET lines == str_split(request.arguments, "\n")
            out == str_split(response, "\n")
            n == IF Len(lines) > 100 THEN 100 ELSE Len(lines)
        IN /\ \A k \in 1..n :
                  /\ k <= Len(out)
                  /\ Take(out[k], 120) = Take(lines[k], 120)
                  /\ Len(lines[k]) <= 120 => out[k] = lines[k]
           /\ IF Len(lines) > 100
              THEN /\ Len(out) = 101
                   /\ out[101] = "... (" \o ToString(Len(lines) - 100) \o " more rows)"
              ELSE Len(out) = Len(lines)

C9_Witness ==
    /\ request.name = "format_result"
    /\ Len(str_split(request.arguments, "\n")) = 102
    /\ Len(str_split(response, "\n")) = 101
    /\ str_split(response, "\n")[101] = "... (2 more rows)"

\* C10: an emitted line longer than max_width is its first max_width
\* characters followed by "...", max_width + 3 characters in all, and a line
\* of at most max_width characters is emitted unchanged.
C10_WideLinesCut ==
    request.name = "format_result" =>
        LET lines == str_split(request.arguments, "\n")
            out == str_split(response, "\n")
        IN \A k \in 1..Len(lines) :
               k <= 100 =>
                   IF Len(lines[k]) > 120
                   THEN /\ out[k] = SubSeq(lines[k], 1, 120) \o "..."
                        /\ Len(out[k]) = 123
                   ELSE out[k] = lines[k]

C10_Witness ==
    /\ request.name = "format_result"
    /\ \E k \in 1..Len(str_split(request.arguments, "\n")) :
           /\ k <= Len(str_split(response, "\n"))
           /\ Len(str_split(request.arguments, "\n")[k]) = 121
           /\ str_split(response, "\n")[k] = Repeat("x", 120) \o "..."


(***************************************************************************)
(* Concurrent requests.  app.run hands every request it reads to a task of *)
(* the one event loop asyncio.run(main()) runs; the loop runs one task at  *)
(* a time, from where the task stands to its next await or to its return.  *)
(* Here pc, request and response are per task, and calls is the engine's   *)
(* log: every call the engine received, with the task that made it.        *)
(***************************************************************************)
NumTasks == 2

\* Whether call_tool awaits after an engine call: its body holds no await,
\* kx.q(...) is a plain call that returns when the engine has answered.
AwaitsAfterCall_Always(name) == TRUE
AwaitsAfterCall(name) == FALSE

\* call_tool(name, arguments): the branch of the tool named.
call_tool(name, arguments, T, eng, data_dir) ==
    CASE name = "list_tables" -> list_tables(arguments, T, eng)
      [] name = "table_schema" -> table_schema(arguments, T, eng)
      [] name = "table_count" -> table_count(arguments, T, eng)
      [] name = "table_sample" -> table_sample(arguments, T, eng)
      [] name = "column_names" -> column_names(arguments, T, eng)
      [] name = "distinct_values" -> distinct_values(arguments, T, eng)
      [] name = "count_by_group" -> count_by_group(arguments, T, eng)
      [] name = "date_range" -> date_range(arguments, T, eng)
      [] name = "data_points_per_day" -> data_points_per_day(arguments, T, eng)
      [] name = "column_stats" -> column_stats(arguments, T, eng)
      [] name = "average_price_by_symbol" -> average_price_by_symbol(arguments, T, eng)
      [] name = "price_range_by_symbol" -> price_range_by_symbol(arguments, T, eng)
      [] name = "highest_prices" -> highest_prices(arguments, T, eng)
      [] name = "price_volatility" -> price_volatility(arguments, T, eng)
      [] name = "price_statistics" -> price_statistics(arguments, T, eng)
      [] name = "average_volume_by_symbol" -> average_volume_by_symbol(arguments, T, eng)
      [] name = "total_volume_by_symbol" -> total_volume_by_symbol(arguments, T, eng)
      [] name = "top_volume_records" -> top_volume_records(arguments, T, eng)
      [] name = "filter_by_symbol" -> filter_by_symbol(arguments, T, eng)
      [] name = "filter_by_price_threshold" -> filter_by_price_threshold(arguments, T, eng)
      [] name = "filter_by_date" -> filter_by_date(arguments, T, eng)
      [] name = "symbol_summary" -> symbol_summary(arguments, T, eng)
      [] name = "daily_ohlc" -> daily_ohlc(arguments, T, eng)
      [] name = "price_change_analysis" -> price_change_analysis(arguments, T, eng)
      [] name = "execute_query" -> execute_query(arguments, T, eng)
      [] name = "server_info" -> server_info(arguments, T, eng, data_dir)
      [] name = "load_table" -> load_table(arguments, T, eng)
      [] OTHER -> Respond(unknown_tool(name), <<>>, T)

InitConcurrent ==
    /\ pc = [t \in 1..NumTasks |->
                 [state |-> "idle", sent |-> 0, plan |-> Respond(NoRet, <<>>, <<>>)]]
    /\ request = [t \in 1..NumTasks |->
                      [name |-> "", arguments |-> NoArguments, eng |-> NoOracle,
                       arrived |-> 0]]
    /\ response = [t \in 1..NumTasks |-> NoRet]
    /\ calls = <<>>
    /\ DATA_DIR = StrVal("/data")
    /\ LOADED_TABLES = load_tables_from_directory("/data").loaded
    /\ tables = load_tables_from_directory("/data").tables

\* app.run reads a request and starts the task that will handle it.
Receive(t) ==
    /\ pc[t].state = "idle"
    /\ \E req \in
            {[name |-> "list_tables", arguments |-> NoArguments, eng |-> NoOracle],
             [name |-> "table_count",
              arguments |-> Present([table_name |-> StrVal("stocks")]),
              eng |-> [NoOracle EXCEPT !.n = 1234]],
             [name |-> "table_count",
              arguments |-> Present([table_name |-> StrVal("trades")]),
              eng |-> NoOracle],
             [name |-> "execute_query",
              arguments |-> Present([query |-> StrVal(" select from stocks "),
                                     max_rows |-> IntVal(5)]),
              eng |-> [NoOracle EXCEPT
                          !.result = [str |-> "symbol| " \o Repeat("x", 121),
                                      len |-> 20000]]],
             [name |-> "server_info", arguments |-> NoArguments, eng |-> NoOracle],
             [name |-> "load_table",
              arguments |-> Present([table_path |-> StrVal("/archive/trades")]),
              eng |-> NoOracle]} :
            request' = [request EXCEPT ![t] =
                           [name |-> req.name, arguments |-> req.arguments,
                            eng |-> req.eng, arrived |-> Len(calls)]]
    /\ pc' = [pc EXCEPT ![t].state = "ready"]
    /\ UNCHANGED <<response, calls, tables, DATA_DIR, LOADED_TABLES>>

\* The loop runs task t: call_tool from where it stands to its next await,
\* or to its return.
Resume(t) ==
    /\ pc[t].state \in {"ready", "suspended"}
    /\ \E plan \in {IF pc[t].state = "ready"
                     THEN call_tool(request[t].name, request[t].arguments, tables,
                                    request[t].eng, DATA_DIR)
                     ELSE pc[t].plan} :
           \E stop \in {IF AwaitsAfterCall(request[t].name)
                                /\ pc[t].sent + 1 < Len(plan.calls)
                         THEN pc[t].sent + 1
                         ELSE Len(plan.calls)} :
               /\ calls' = calls \o [i \in 1..(stop - pc[t].sent) |->
                                        [task |-> t, call |-> plan.calls[pc[t].sent + i]]]
               /\ IF stop = Len(plan.calls)
                  THEN /\ pc' = [pc EXCEPT ![t] =
                                     [state |-> "returned", sent |-> stop, plan |-> plan]]
                       /\ response' = [response EXCEPT ![t] = plan.text]
                       /\ tables' = plan.tables
                  ELSE /\ pc' = [pc EXCEPT ![t] =
                                     [state |-> "suspended", sent |-> stop, plan |-> plan]]
                       /\ UNCHANGED <<response, tables>>
    /\ UNCHANGED <<request, DATA_DIR, LOADED_TABLES>>

NextConcurrent == \E t \in 1..NumTasks : Receive(t) \/ Resume(t)

SpecConcurrent == InitConcurrent /\ [][NextConcurrent]_vars

\* C21: the engine calls of two invocations never interleave: in the
\* engine's log the calls of each invocation are next to each other.
C21_EngineCallsNeverInterleave ==
    \A i, k \in 1..Len(calls) :
        i < k /\ calls[i].task = calls[k].task =>
            \A j \in i..k : calls[j].task = calls[i].task

\* Two requests pending at once, each answered after two engine calls or more.
C21_Witness ==
    \E t, u \in 1..NumTasks :
        /\ t # u
        /\ pc[t].state = "returned" /\ pc[u].state = "returned"
        /\ request[t].arrived = 0 /\ request[u].arrived = 0
        /\ pc[t].sent >= 2 /\ pc[u].sent >= 2
        /\ request[t].name = "load_table" /\ request[u].name = "server_info"
        /\ Len(calls) = pc[t].sent + pc[u].sent

=============================================================================
